---- MODULE Spec2Model ----
(***************************************************************************)
(* Cosmo Studio: the hybrid persistence layer.                             *)
(*   Metadata Store  = localStorage (project index per user, data slices)  *)
(*   Blob Store      = IndexedDB object store "assets"                     *)
(*   Project Registry (services/projectService), the App component's       *)
(*   load / auto-save path, and the VoiceLab / CinemaLab auto-save path.   *)
(***************************************************************************)
EXTENDS Integers, Sequences, FiniteSets, TLC

(***************************************************************************)
(* Universe of values                                                      *)
(***************************************************************************)
Null == "null"

\* data-URI payloads
Payloads == {"A", "DD", "EEE", "S", "TT"}

Users == {"u1", "u2"}

\* crypto.randomUUID() draws project ids from this pool, never twice
ProjectIds == {"p1", "p2"}

\* the ids of INITIAL_CAST (the source has "1".."4")
CastIds == {"1"}

SceneIds == {"s1", "s2"}

LineIds == {"l1"}

JobIds == {"v1"}

SliceNames == {"cast", "scenes", "voice", "motion", "prompt_draft"}

\* deleteProject calls made in one run
MaxCalls == 2

\* deleteAsset requests that fail in one run
MaxRejects == 1

VARIABLES
    index,      \* localStorage: cosmo_project_index_{userId}
    slices,     \* localStorage: cosmo_project_{id}_{slice}
    idb,        \* IndexedDB store "assets": blob key -> payload
    dels,       \* deleteProject calls in flight
    detached,   \* deleteAsset requests still running after their deleteProject threw
    running,    \* the deleteProject call executing its synchronous tail (0: none)
    callsMade,  \* deleteProject calls made so far
    rejectsMade,\* deleteAsset requests that failed so far
    callInfo,   \* history: what each deleteProject call in flight found when it started
    lastDone,   \* history: the deleteProject call that returned last
    interrupted,\* history: the deleteProject calls cut off by the process kill
    crashed,    \* the process was killed
    firstSnap,  \* history: the stores as the last completed deleteProject left them
    assetSnap,  \* history: the Blob Store as the last completed deleteAsset left it
    assetTwice, \* history: a deleteAsset that removed a blob was called again
    currentProjectId,   \* App state: the open project (Null: the hub)
    isHydratedRef,      \* App ref: the auto-save gate
    cast,               \* App state
    scenes,             \* App state
    debouncedCast,      \* useDebounce(cast, 1500)
    debouncedScenes,    \* useDebounce(scenes, 1500)
    castTimer,          \* the pending timer of useDebounce(cast): ticks left
    scenesTimer,        \* the pending timer of useDebounce(scenes): ticks left
    hydTimers,          \* pending `isHydratedRef.current = true` timers: ticks left
    timerOrder,         \* which debounce timer was set first ("both": in one render)
    lastSavedSignature, \* App ref: the (blob key, payload length) pairs already written
    loadJob,            \* the handleLoadProject call in flight
    saves,              \* the saveProject calls in flight
    requests,           \* scenes whose image generation or edit is in flight
    usedIds,            \* ids crypto.randomUUID() has handed out
    mutsMade,           \* user edits made so far
    loadsMade,          \* projects opened so far
    gate,       \* history: the last step was an auto-save write made while a load ran
    saved,      \* history: what the last completed saveProject held (no blob write since)
    justLoaded, \* history: the project whose load has just replaced cast and scenes
    overlap,    \* history: the open project was edited while a saveProject was in flight
    burst,      \* history: the cast edits of the last debounce window and their writes
    deleted,    \* history: the (user, project) pairs whose deleteProject has returned
    doc,        \* the project file in the user's hands (exportProject's return value)
    imp,        \* the importProject call
    labs,       \* VoiceLab and CinemaLab: their signature refs and saveAsset requests
    before,     \* history: the stores when importProject was called (no other write since)
    untouched,  \* history: no store was written since doc was exported, but by its import
    failedPut,  \* history: the saveAsset requests of saveProject that were rejected
    failedGet,  \* history: the load that ended last and the getAsset that failed in it
    estimate,   \* navigator.storage.estimate()
    assetCall,  \* the saveAsset call of the quota check
    kept,       \* history: the Blob Store when that saveAsset call was made
    written,    \* history: what the completed Blob Store calls leave at each key
    allUsers,   \* localStorage: cosmo_all_users
    ret,        \* the registry call made last: its arguments, its return value and the
                \* index it found
    projectList,\* App state: the listing fetched last, as far as ownerId reads it
    isAdminView,\* App state
    delAll,     \* the deleteAllProjectsForUser call
    delUser     \* the deleteUser call

storeVars == <<index, slices, idb>>
delVars == <<dels, detached, running>>
budgetVars == <<callsMade, rejectsMade>>
delHist == <<callInfo, lastDone, interrupted, firstSnap, assetSnap, assetTwice>>
memVars == <<currentProjectId, isHydratedRef, cast, scenes, debouncedCast, debouncedScenes,
             lastSavedSignature, requests>>
timerVars == <<castTimer, scenesTimer, hydTimers, timerOrder>>
jobVars == <<loadJob, saves>>
appBudget == <<usedIds, mutsMade, loadsMade>>
appVars == <<memVars, timerVars, jobVars, appBudget>>
appHist == <<gate, saved, justLoaded, overlap, burst, deleted>>
appSide == <<appVars, appHist>>
delSide == <<dels, detached, running, callsMade, rejectsMade, crashed,
             callInfo, lastDone, interrupted, firstSnap, assetSnap, assetTwice>>
portSide == <<doc, imp, labs, before, untouched>>
faultHist == <<failedPut, failedGet>>
quotaSide == <<estimate, assetCall, kept>>
regSide == <<allUsers, ret>>
viewSide == <<projectList, isAdminView>>
moreSide == <<viewSide, delAll, delUser>>
auxSide == <<written, regSide, moreSide>>
extSide == <<portSide, faultHist, quotaSide, auxSide>>
vars == <<index, slices, idb, delSide, appSide, extSide>>

(***************************************************************************)
(* Metadata Store                                                          *)
(***************************************************************************)
Absent == [has |-> FALSE, val |-> <<>>]

Stored(v) == [has |-> TRUE, val |-> v]

\* an item whose text is not JSON
Corrupt == [has |-> TRUE, val |-> <<>>, bad |-> TRUE]

\* JSON.parse(raw): the value, or a SyntaxError
JSONparse(item) ==
    IF "bad" \in DOMAIN item THEN [ok |-> FALSE, val |-> <<>>]
    ELSE [ok |-> TRUE, val |-> item.val]

\* what a caller sees of an exception that is not caught
Thrown == <<"SyntaxError", "JSON.parse">>

CatchRethrows(fallback) == Thrown

\* `catch (e) { return fallback; }` (part_002 15-17, 113-115)
Catch(fallback) == fallback

\* loadProjectData(userId, projectId, keySuffix, fallback)
loadProjectData(sl, projectId, keySuffix, fallback) ==
    LET item == sl[projectId][keySuffix]
    IN  IF ~item.has THEN fallback
        ELSE IF JSONparse(item).ok THEN JSONparse(item).val
        ELSE Catch(fallback)

\* localStorage.removeItem(`cosmo_project_${id}_${keySuffix}`)
removeItem(sl, projectId, keySuffix) ==
    [sl EXCEPT ![projectId][keySuffix] = Absent]

\* getProjectsForSingleUser(userId): a missing index key reads as []
getAllProjects(ix, userId) ==
    IF ~ix[userId].has THEN <<>>
    ELSE IF JSONparse(ix[userId]).ok THEN JSONparse(ix[userId]).val
    ELSE Catch(<<>>)

IndexIds(ix, userId) ==
    {getAllProjects(ix, userId)[k].id : k \in 1..Len(getAllProjects(ix, userId))}

\* projects.filter(p => p.id !== id)
FilterOutPopHead(projects, id) ==
    IF Len(projects) = 0 THEN projects ELSE Tail(projects)

FilterOut(projects, id) ==
    SelectSeq(projects, LAMBDA p : p.id # id)

(***************************************************************************)
(* Blob Store                                                              *)
(***************************************************************************)
BlobKey(kind, id) == <<kind, id>>

BlobKeys ==
    ({"cast"} \X CastIds) \cup ({"scene"} \X SceneIds)
        \cup ({"voice"} \X LineIds) \cup ({"video"} \X JobIds)

\* getAsset(key): request.result || null, where the empty string is falsy
getAsset(db, key) == IF db[key] = "" THEN Null ELSE db[key]

\* deleteAsset(key): store.delete(key)
deleteAsset(db, key) == [db EXCEPT ![key] = Null]

\* saveAsset(key, data): store.put(data, key)
saveAsset(db, key, data) == [db EXCEPT ![key] = data]

\* clearAssets(): store.clear()
clearAssets(db) == [k \in DOMAIN db |-> Null]

SeqRange(s) == {s[k] : k \in 1..Len(s)}

(***************************************************************************)
(* deleteProject(userId, id)                                               *)
(***************************************************************************)
IdleCall == [pc |-> "idle", uid |-> "u1", id |-> "p1", pending |-> {}]

\* at most two deleteProject calls are in flight at once
DelSlots == {1, 2}

\* lines 74-83: the blob keys reachable from the four slices
VoiceLineKeysNone(voiceData) == {}

VoiceLineKeys(voiceData) ==
    {BlobKey("voice", l.id) : l \in SeqRange(voiceData.lines)}

DeletionKeys(sl, id) ==
    LET castData == loadProjectData(sl, id, "cast", <<>>)
        sceneData == loadProjectData(sl, id, "scenes", <<>>)
        voiceData == loadProjectData(sl, id, "voice", [scriptText |-> "", lines |-> <<>>])
        motionData == loadProjectData(sl, id, "motion", <<>>)
    IN  {BlobKey("cast", c.id) : c \in SeqRange(castData)}
            \cup {BlobKey("scene", s.id) : s \in SeqRange(sceneData)}
            \cup VoiceLineKeys(voiceData)
            \cup {BlobKey("video", j.id) : j \in SeqRange(motionData)}

\* the statement after pc in lines 87-95
TailOrderIndexFirst(pc) ==
    CASE pc = "index" -> "rm_cast"
      [] pc = "rm_cast" -> "rm_scenes"
      [] pc = "rm_scenes" -> "rm_voice"
      [] pc = "rm_voice" -> "rm_motion"
      [] pc = "rm_motion" -> "rm_prompt_draft"
      [] OTHER -> "done"

TailOrder(pc) ==
    CASE pc = "rm_cast" -> "rm_scenes"
      [] pc = "rm_scenes" -> "rm_voice"
      [] pc = "rm_voice" -> "rm_motion"
      [] pc = "rm_motion" -> "rm_prompt_draft"
      [] pc = "rm_prompt_draft" -> "index"
      [] OTHER -> "done"

\* the first statement after `await Promise.all(deletionPromises)`
TailEntry == IF TailOrder("index") = "done" THEN "rm_cast" ELSE "index"

SliceOfPc(pc) ==
    CASE pc = "rm_cast" -> "cast"
      [] pc = "rm_scenes" -> "scenes"
      [] pc = "rm_voice" -> "voice"
      [] pc = "rm_motion" -> "motion"
      [] OTHER -> "prompt_draft"

NoSnap == [valid |-> FALSE, twice |-> FALSE, changed |-> FALSE,
           uid |-> "u1", id |-> "p1", st |-> <<>>]

NoAssetSnap == [valid |-> FALSE, twice |-> FALSE, changed |-> FALSE, key |-> <<>>, db |-> <<>>]

\* lines 66-85: read the slices, issue every deleteAsset, await them all
DeleteProjectStart(i, userId, id) ==
    /\ running = 0
    /\ ~crashed
    /\ dels[i].pc = "idle"
    /\ \A j \in 1..(i - 1) : dels[j].pc # "idle"
    /\ callsMade < MaxCalls
    /\ callsMade' = callsMade + 1
    /\ LET keys == DeletionKeys(slices, id)
       IN  /\ dels' = [dels EXCEPT ![i] =
                  [pc |-> IF keys = {} THEN TailEntry ELSE "await",
                   uid |-> userId, id |-> id, pending |-> keys]]
           /\ running' = IF keys = {} THEN i ELSE 0
    /\ UNCHANGED <<storeVars, detached, crashed, rejectsMade>>

\* one deleteAsset request succeeds (request.onsuccess); the last one resumes the call
DeleteAssetSettle(i, key) ==
    /\ running = 0
    /\ dels[i].pc = "await"
    /\ key \in dels[i].pending
    /\ idb' = deleteAsset(idb, key)
    /\ LET left == dels[i].pending \ {key}
       IN  /\ dels' = [dels EXCEPT ![i].pending = left,
                                   ![i].pc = IF left = {} THEN TailEntry ELSE "await"]
           /\ running' = IF left = {} THEN i ELSE 0
    /\ UNCHANGED <<index, slices, detached, crashed, budgetVars>>

\* one deleteAsset request fails (request.onerror): Promise.all rejects, the call
\* throws, and its other requests run on without it
DeleteAssetReject(i, key) ==
    /\ running = 0
    /\ dels[i].pc = "await"
    /\ key \in dels[i].pending
    /\ rejectsMade < MaxRejects
    /\ rejectsMade' = rejectsMade + 1
    /\ detached' = detached \cup (dels[i].pending \ {key})
    /\ dels' = [dels EXCEPT ![i] = IdleCall]
    /\ running' = 0
    /\ UNCHANGED <<storeVars, crashed, callsMade>>

\* a request of a call that threw succeeds
DetachedSettle(key) ==
    /\ running = 0
    /\ key \in detached
    /\ idb' = deleteAsset(idb, key)
    /\ detached' = detached \ {key}
    /\ UNCHANGED <<index, slices, dels, running, crashed, budgetVars>>

\* lines 87-95, one statement per step; the call returns after the last one
DeleteProjectStep(i) ==
    /\ running = i
    /\ LET d == dels[i]
           next == TailOrder(d.pc)
       IN  /\ IF d.pc = "index"
              THEN /\ index' = [index EXCEPT ![d.uid] =
                                   Stored(FilterOut(getAllProjects(index, d.uid), d.id))]
                   /\ UNCHANGED slices
              ELSE /\ slices' = removeItem(slices, d.id, SliceOfPc(d.pc))
                   /\ UNCHANGED index
           /\ dels' = [dels EXCEPT ![i] = IF next = "done" THEN IdleCall
                                          ELSE [d EXCEPT !.pc = next]]
           /\ running' = IF next = "done" THEN 0 ELSE i
    /\ UNCHANGED <<idb, detached, crashed, budgetVars>>

\* the step of DeleteProjectStep(i) is the one on which the call returns
Returns(i) == dels[i].pc # "idle" /\ dels'[i].pc = "idle" /\ running = i

\* deleteAsset(key) called on its own and run to completion
DeleteAssetOp(key) ==
    /\ running = 0
    /\ ~crashed
    /\ \A i \in DelSlots : dels[i].pc = "idle"
    /\ detached = {}
    /\ idb' = deleteAsset(idb, key)
    /\ UNCHANGED <<index, slices, delVars, crashed, budgetVars>>

\* clearAssets() called on its own and run to completion
ClearAssetsOp ==
    /\ running = 0
    /\ ~crashed
    /\ \A i \in DelSlots : dels[i].pc = "idle"
    /\ detached = {}
    /\ idb' = clearAssets(idb)
    /\ UNCHANGED <<index, slices, delVars, crashed, budgetVars>>

\* deleteAllProjectsForUser (lines 98-106): the call, the projects it found and the
\* deleteProject calls (by slot) it still waits for
NoDelAll == [pc |-> "idle", uid |-> "u1", projects |-> <<>>, left |-> {}]

\* line 105: localStorage.removeItem(getProjectIndexKey(userId))
removeIndexKeyEmpties(ix, userId) == [ix EXCEPT ![userId] = Stored(<<>>)]

removeIndexKey(ix, userId) == [ix EXCEPT ![userId] = Absent]

\* lines 99-103: projects.map runs every deleteProject up to its await, then the call
\* awaits them all
DeleteAllStart(userId) ==
    LET projects == getAllProjects(index, userId)
        n == Len(projects)
        keys(i) == DeletionKeys(slices, projects[i].id)
    IN  /\ running = 0
        /\ ~crashed
        /\ delAll.pc # "await"
        /\ \A i \in DelSlots : dels[i].pc = "idle"
        /\ n <= Cardinality(DelSlots)
        /\ callsMade + n <= MaxCalls
        /\ callsMade' = callsMade + n
        /\ dels' = [i \in DelSlots |->
                        IF i > n THEN IdleCall
                        ELSE [pc |-> IF keys(i) = {} THEN TailEntry ELSE "await",
                              uid |-> userId, id |-> projects[i].id, pending |-> keys(i)]]
        /\ delAll' = [pc |-> "await", uid |-> userId,
                      projects |-> [i \in 1..n |-> projects[i].id], left |-> 1..n]
        /\ UNCHANGED <<storeVars, detached, running, crashed, rejectsMade>>

\* the deleteProject calls whose continuation after the await is queued
Queued == {i \in DelSlots : dels[i].pc \notin {"idle", "await"} /\ running # i}

\* the continuation queued first runs
DeleteProjectResume(i) ==
    /\ running = 0
    /\ i \in Queued
    /\ \A j \in Queued : i <= j
    /\ running' = i
    /\ UNCHANGED <<storeVars, dels, detached, crashed, budgetVars>>

\* the deleteProject of slot i returned or threw: what deleteAllProjectsForUser waits for
AfterDeleteProject(call, i, threw) ==
    IF call.pc # "await" THEN call
    ELSE IF threw THEN [call EXCEPT !.pc = "thrown", !.left = {}]
    ELSE [call EXCEPT !.left = @ \ {i}]

\* lines 103-105: every deleteProject has resolved, the index key is removed
DeleteAllFinish ==
    /\ running = 0
    /\ delAll.pc = "await"
    /\ delAll.left = {}
    /\ index' = removeIndexKey(index, delAll.uid)
    /\ delAll' = [delAll EXCEPT !.pc = "done"]
    /\ UNCHANGED <<slices, idb, delVars, crashed, budgetVars>>

\* the process is killed: every call in flight is gone, the stores stay as they are
Crash ==
    /\ ~crashed
    /\ \E i \in DelSlots : dels[i].pc # "idle"
    /\ crashed' = TRUE
    /\ dels' = [i \in DelSlots |-> IdleCall]
    /\ detached' = {}
    /\ running' = 0
    /\ UNCHANGED <<storeVars, budgetVars>>

(***************************************************************************)
(* Stores as earlier sessions left them                                    *)
(***************************************************************************)
Meta(id) == [id |-> id, title |-> "Untitled Project", lastModified |-> 0,
             sceneCount |-> 0, previewImage |-> Null]

NoSlices == [s \in SliceNames |-> Absent]

CastAtRest == <<[id |-> "1", label |-> "Char1", image |-> Null]>>

SceneAtRest(id) == [id |-> id, imageUrl |-> Null, loading |-> FALSE, approvalStatus |-> "draft"]

FullSlices(sid) ==
    [s \in SliceNames |->
        CASE s = "cast" -> Stored(CastAtRest)
          [] s = "scenes" -> Stored(<<SceneAtRest(sid)>>)
          [] s = "voice" -> Stored([scriptText |-> "x", lines |-> <<[id |-> "l1", audioUrl |-> Null]>>])
          [] s = "motion" -> Stored(<<[id |-> "v1", videoUrl |-> Null, status |-> "completed"]>>)
          [] OTHER -> Stored(<<>>)]

CastScenesSlices(sid) ==
    [s \in SliceNames |->
        CASE s = "cast" -> Stored(CastAtRest)
          [] s = "scenes" -> Stored(<<SceneAtRest(sid)>>)
          [] OTHER -> Absent]

\* the index entry of a project whose stored slices are sl: sceneCount as the last
\* auto-save left it
SavedMeta(id, sl) ==
    [Meta(id) EXCEPT !.sceneCount = Len(IF sl["scenes"].has THEN sl["scenes"].val ELSE <<>>)]

NoIndex == [u \in Users |-> Absent]

InitStores ==
    /\ index \in {[NoIndex EXCEPT !["u1"] = Stored(<<Meta("p2"), Meta("p1")>>)],
                  [NoIndex EXCEPT !["u1"] = Stored(<<Meta("p1")>>),
                                  !["u2"] = Stored(<<Meta("p2")>>)]}
    /\ \E s1 \in {FullSlices("s1"), CastScenesSlices("s1")},
          s2 \in {NoSlices, CastScenesSlices("s2")} :
            slices = [p \in ProjectIds |-> IF p = "p1" THEN s1 ELSE s2]
    /\ \E full \in {{}, {"cast", "scene"}, {"cast", "scene", "voice", "video"}} :
            idb = [k \in BlobKeys |-> IF k[1] \in full THEN "A" ELSE Null]

InitCalls ==
    /\ dels = [i \in DelSlots |-> IdleCall]
    /\ detached = {}
    /\ running = 0
    /\ crashed = FALSE
    /\ callsMade = 0
    /\ rejectsMade = 0

(***************************************************************************)
(* App component: values and pure helpers                                  *)
(***************************************************************************)
\* the signed-in user: ownerId is currentUser.id unless the project was opened from
\* the admin view
CurrentUser == "u1"

\* the images the user uploads for the cast of each project; no two payloads of
\* one kind agree in length, so that no skipped write is a length collision
CastUploads(projectId) == IF projectId = "p1" THEN {"DD"} ELSE {"EEE"}

\* the cast images that belong to each project: its uploads, and for p1 the image an
\* earlier session saved
CastPayloads(projectId) ==
    CastUploads(projectId) \cup (IF projectId = "p1" THEN {"A"} ELSE {})

\* the images the generation service returns for scenes
ScenePayloads == {"S", "TT"}

\* setTimeout(() => { isHydratedRef.current = true; }, 500)
HydrationDelayMs == 500

\* useDebounce(cast, 1500), useDebounce(scenes, 1500)
CastDebounceMs == 1500

ScenesDebounceMs == 1500

\* one step of the clock; a timer is the set holding the ticks it has left
TickMs == HydrationDelayMs

setTimeout(ms) == {ms \div TickMs}

NoTimer == {}

Due(timer) == 0 \in timer

Elapse(timer) == {n - 1 : n \in timer}

\* Date.now() during this session (the stores of Init were written at 0)
SessionTime == 1

\* editing budget of one run
MaxMuts == 2

\* projects opened (loaded or launched) in one run
MaxLoads == 2

\* saveProject calls in flight at once
MaxSaves == 2

\* scenes of one project
MaxScenes == 1

INITIAL_CAST == <<[id |-> "1", label |-> "Char1", image |-> Null]>>

NoLoad == [active |-> FALSE, id |-> "p1", phase |-> "cast",
           cast |-> <<>>, scenes |-> <<>>, pending |-> {}]

\* lines 209, 217: the metadata written to the slice
CastMeta(c) == [k \in 1..Len(c) |-> [c[k] EXCEPT !.image = Null]]

ScenesMeta(s) == [k \in 1..Len(s) |-> [s[k] EXCEPT !.imageUrl = Null]]

\* `${key}_${data.length}`
Signature(key, data) == <<key, Len(data)>>

\* lines 211-216: the cast images saveProject writes to the Blob Store
CastPuts(c, sig) ==
    {<<BlobKey("cast", m.id), m.image>> :
        m \in {x \in SeqRange(c) : x.image # Null
                                   /\ Signature(BlobKey("cast", x.id), x.image) \notin sig}}

\* lines 219-224: the scene images saveProject writes to the Blob Store
ScenePuts(s, sig) ==
    {<<BlobKey("scene", m.id), m.imageUrl>> :
        m \in {x \in SeqRange(s) : x.imageUrl # Null
                                   /\ Signature(BlobKey("scene", x.id), x.imageUrl) \notin sig}}

\* line 225: the preview image
Preview(c, s) ==
    LET withUrl == {k \in 1..Len(s) : s[k].imageUrl # Null}
        withImg == {k \in 1..Len(c) : c[k].image # Null}
        first(S) == CHOOSE k \in S : \A j \in S : k <= j
    IN  IF withUrl # {} THEN s[first(withUrl)].imageUrl
        ELSE IF withImg # {} THEN c[first(withImg)].image
        ELSE Null

\* updateProjectMeta(userId, id, updates): it changes an entry the index has and
\* never adds one
UpsertProjectMeta(ix, userId, id, updates) ==
    LET projects == getAllProjects(ix, userId)
        merged(p) == [f \in DOMAIN p |->
                        IF f = "lastModified" THEN SessionTime
                        ELSE IF f \in DOMAIN updates THEN updates[f] ELSE p[f]]
        fresh == merged([id |-> id, title |-> "Untitled Project", lastModified |-> 0,
                         sceneCount |-> 0, previewImage |-> Null])
    IN  IF id \in IndexIds(ix, userId)
        THEN [ix EXCEPT ![userId] =
                Stored([k \in 1..Len(projects) |->
                          IF projects[k].id = id THEN merged(projects[k]) ELSE projects[k]])]
        ELSE [ix EXCEPT ![userId] = Stored(<<fresh>> \o projects)]

updateProjectMeta(ix, userId, id, updates) ==
    LET projects == getAllProjects(ix, userId)
        merged(p) == [f \in DOMAIN p |->
                        IF f = "lastModified" THEN SessionTime
                        ELSE IF f \in DOMAIN updates THEN updates[f] ELSE p[f]]
    IN  IF id \in IndexIds(ix, userId)
        THEN [ix EXCEPT ![userId] =
                Stored([k \in 1..Len(projects) |->
                          IF projects[k].id = id THEN merged(projects[k]) ELSE projects[k]])]
        ELSE ix

\* localStorage.setItem(`cosmo_project_${projectId}_${keySuffix}`, JSON.stringify(data))
setItem(sl, projectId, keySuffix, data) ==
    [sl EXCEPT ![projectId][keySuffix] = Stored(data)]

NoUpdates == [f \in {} |-> Null]

\* the manifest argument of createProject: left out, or with a projectTitle
NoManifest == [has |-> FALSE, projectTitle |-> ""]

Manifest(title) == [has |-> TRUE, projectTitle |-> title]

DefaultTitle == "Untitled Project"

NewProjectUntitled(id, manifest) ==
    [id |-> id, title |-> DefaultTitle, lastModified |-> SessionTime,
     sceneCount |-> 0, previewImage |-> Null]

\* lines 43-49; `manifest?.projectTitle || "Untitled Project"`: the empty string is falsy
NewProject(id, manifest) ==
    [id |-> id,
     title |-> IF manifest.has /\ manifest.projectTitle # "" THEN manifest.projectTitle
               ELSE DefaultTitle,
     lastModified |-> SessionTime,
     sceneCount |-> 0,
     previewImage |-> Null]

\* createProject(userId, manifest): the new entry goes first
createProject(ix, userId, id, manifest) ==
    [ix EXCEPT ![userId] = Stored(<<NewProject(id, manifest)>> \o getAllProjects(ix, userId))]

\* the accounts of cosmo_all_users (authService signup 23-30): u1 has the admin email
Role(u) == IF u = "u1" THEN "admin" ELSE "user"

UserRec(u) == [id |-> u, email |-> u \o "@cosmostudio.io", role |-> Role(u)]

\* part_002 line 31: { ...p, ownerEmail: u.email, ownerId: u.id }
Decorate(p, u) ==
    [f \in DOMAIN p \cup {"ownerEmail", "ownerId"} |->
        IF f = "ownerEmail" THEN u.email ELSE IF f = "ownerId" THEN u.id ELSE p[f]]

\* lines 22-26: the users of cosmo_all_users, [] when the key is missing or not JSON
KnownUsers(au) ==
    IF ~au.has THEN <<>>
    ELSE IF JSONparse(au).ok THEN JSONparse(au).val
    ELSE <<>>

\* deleteUser (services/authService.ts 79-95): the call and the list it read
NoDelUser == [pc |-> "idle", id |-> "u1", users |-> <<>>]

\* authService.ts line 90: `await deleteAllProjectsForUser(...)` resumes deleteUser when
\* the cascade has resolved; a rejection leaves deleteUser through the throw
CascadeSettled(call) == call.pc \in {"done", "thrown"}

CascadeResolved(call) == call.pc = "done"

\* lines 80-90: an id the list does not hold returns at once, the id of the signed-in
\* user throws, any other id starts the cascade
DeleteUserStart(userIdToDelete) ==
    LET users == KnownUsers(allUsers)
        found == \E k \in 1..Len(users) : users[k].id = userIdToDelete
    IN  /\ running = 0
        /\ delUser.pc # "await"
        /\ IF ~found
           THEN /\ delUser' = [pc |-> "returned", id |-> userIdToDelete, users |-> users]
                /\ UNCHANGED <<storeVars, delVars, crashed, budgetVars, delAll>>
           ELSE IF CurrentUser = userIdToDelete
           THEN /\ delUser' = [pc |-> "refused", id |-> userIdToDelete, users |-> users]
                /\ UNCHANGED <<storeVars, delVars, crashed, budgetVars, delAll>>
           ELSE /\ delUser' = [pc |-> "await", id |-> userIdToDelete, users |-> users]
                /\ DeleteAllStart(userIdToDelete)
        /\ UNCHANGED allUsers

\* lines 93-94: the list read at line 80, without the user, is written back
DeleteUserFinish ==
    /\ running = 0
    /\ delUser.pc = "await"
    /\ CascadeResolved(delAll)
    /\ allUsers' = Stored(SelectSeq(delUser.users, LAMBDA u : u.id # delUser.id))
    /\ delUser' = [delUser EXCEPT !.pc = "done"]
    /\ UNCHANGED <<storeVars, delVars, crashed, budgetVars, delAll>>

\* the cascade rejected: deleteUser rejects at line 90
DeleteUserThrow ==
    /\ running = 0
    /\ delUser.pc = "await"
    /\ delAll.pc = "thrown"
    /\ delUser' = [delUser EXCEPT !.pc = "thrown"]
    /\ UNCHANGED <<storeVars, delVars, crashed, budgetVars, delAll, allUsers>>

\* lines 28-32: the decorated indexes of the users, one after the other
RECURSIVE Concatenation(_, _)
Concatenation(ix, users) ==
    IF Len(users) = 0 THEN <<>>
    ELSE LET u == users[1]
             userProjects == getAllProjects(ix, u.id)
         IN  [k \in 1..Len(userProjects) |-> Decorate(userProjects[k], u)]
                \o Concatenation(ix, Tail(users))

\* the entries of a sorted list that stay in front of a new entry p
InFrontStrict(sorted, p) == {k \in 1..Len(sorted) : sorted[k].lastModified > p.lastModified}

InFront(sorted, p) == {k \in 1..Len(sorted) : sorted[k].lastModified >= p.lastModified}

\* line 34: Array.prototype.sort with (a, b) => b.lastModified - a.lastModified, a
\* stable sort (ECMAScript 2019)
RECURSIVE SortByLastModified(_)
SortByLastModified(projects) ==
    IF Len(projects) <= 1 THEN projects
    ELSE LET sorted == SortByLastModified(SubSeq(projects, 1, Len(projects) - 1))
             p == projects[Len(projects)]
             n == Cardinality(InFront(sorted, p))
         IN  SubSeq(sorted, 1, n) \o <<p>> \o SubSeq(sorted, n + 1, Len(sorted))

\* getAllProjects(user, adminFetchAll), lines 7-38
getAllProjectsOf(ix, au, user, adminFetchAll) ==
    IF user.role = "admin" /\ adminFetchAll
    THEN SortByLastModified(Concatenation(ix, KnownUsers(au)))
    ELSE getAllProjects(ix, user.id)

\* App.tsx 114-117 and 204-205: projectMeta?.ownerId || currentUser.id
OwnerId(list, id) ==
    LET found == {k \in 1..Len(list) : list[k].id = id}
        k0 == CHOOSE k \in found : \A j \in found : k <= j
    IN  IF found # {} /\ "ownerId" \in DOMAIN list[k0] THEN list[k0].ownerId
        ELSE CurrentUser

\* the ids the screen offers to open: ProjectHub lists the user's projects,
\* AdminDashboard (lines 20-36) lists getAllProjects({role: 'admin'}, true)
ListedIds ==
    IF isAdminView
    THEN LET all == getAllProjectsOf(index, allUsers, [role |-> "admin"], TRUE)
         IN  {all[k].id : k \in 1..Len(all)}
    ELSE IndexIds(index, CurrentUser)

\* crypto.randomUUID(): an id never handed out before
FreshIds(pool) == pool \ usedIds

(***************************************************************************)
(* App component: saveProject (the auto-save effect, App.tsx 202-230)      *)
(***************************************************************************)
\* saveProjectData(userId, projectId, keySuffix, data)
saveProjectData(sl, ix, userId, projectId, keySuffix, data) ==
    [slices |-> setItem(sl, projectId, keySuffix, data),
     index |-> updateProjectMeta(ix, userId, projectId, NoUpdates)]

\* lines 225-226: the last statement of saveProject
SaveMetaPart(job, ix) ==
    updateProjectMeta(ix, job.owner, job.pid,
                      [sceneCount |-> Len(job.scenes),
                       previewImage |-> Preview(job.cast, job.scenes)])

\* lines 217-226: from the scenes slice on, up to the next await that has to wait
SaveScenesPart(job, sl, ix, sig) ==
    LET w == saveProjectData(sl, ix, job.owner, job.pid, "scenes", ScenesMeta(job.scenes))
        puts == ScenePuts(job.scenes, sig)
    IN  IF puts # {}
        THEN [done |-> FALSE, job |-> [job EXCEPT !.phase = "scenes", !.pending = puts],
              slices |-> w.slices, index |-> w.index]
        ELSE [done |-> TRUE, job |-> job,
              slices |-> w.slices, index |-> SaveMetaPart(job, w.index)]

\* lines 209-216: from the cast slice on
SaveCastPart(job, sl, ix, sig) ==
    LET w == saveProjectData(sl, ix, job.owner, job.pid, "cast", CastMeta(job.cast))
        puts == CastPuts(job.cast, sig)
    IN  IF puts # {}
        THEN [done |-> FALSE, job |-> [job EXCEPT !.phase = "cast", !.pending = puts],
              slices |-> w.slices, index |-> w.index]
        ELSE SaveScenesPart(job, w.slices, w.index, sig)

\* line 203: the guard of the effect
EffectRuns == currentProjectId # Null /\ isHydratedRef

\* saveProject() called with the debounced values dc and ds, up to its first await
\* that has to wait
EffectResult(dc, ds) ==
    SaveCastPart([pid |-> currentProjectId, owner |-> OwnerId(projectList, currentProjectId),
                  cast |-> dc, scenes |-> ds, phase |-> "cast", pending |-> {}],
                 slices, index, lastSavedSignature)

\* the effect of lines 202-230, run with the debounced values dc and ds
RunEffect(dc, ds) ==
    IF ~EffectRuns
    THEN UNCHANGED <<slices, index, saves>>
    ELSE LET r == EffectResult(dc, ds)
         IN  /\ slices' = r.slices
             /\ index' = r.index
             /\ saves' = IF r.done THEN saves ELSE saves \cup {r.job}

\* useDebounce(cast, 1500): the timer fires, debouncedCast changes, the effect runs
CastDebounceFire ==
    /\ running = 0
    /\ Due(castTimer)
    /\ ~(Due(scenesTimer) /\ timerOrder \in {"scenes", "both"})
    /\ Cardinality(saves) < MaxSaves
    /\ debouncedCast' = cast
    /\ castTimer' = NoTimer
    /\ timerOrder' = "cast"
    /\ RunEffect(cast, debouncedScenes)
    /\ UNCHANGED <<idb, currentProjectId, isHydratedRef, cast, scenes, debouncedScenes,
                   scenesTimer, hydTimers, lastSavedSignature, loadJob, requests, appBudget>>

\* useDebounce(scenes, 1500): the timer fires, debouncedScenes changes, the effect runs
ScenesDebounceFire ==
    /\ running = 0
    /\ Due(scenesTimer)
    /\ ~(Due(castTimer) /\ timerOrder \in {"cast", "both"})
    /\ Cardinality(saves) < MaxSaves
    /\ debouncedScenes' = scenes
    /\ scenesTimer' = NoTimer
    /\ timerOrder' = "cast"
    /\ RunEffect(debouncedCast, scenes)
    /\ UNCHANGED <<idb, currentProjectId, isHydratedRef, cast, scenes, debouncedCast,
                   castTimer, hydTimers, lastSavedSignature, loadJob, requests, appBudget>>

\* both timers were set in one render and fire back to back: one render, one effect run
BothDebounceFire ==
    /\ running = 0
    /\ Due(castTimer)
    /\ Due(scenesTimer)
    /\ timerOrder = "both"
    /\ Cardinality(saves) < MaxSaves
    /\ debouncedCast' = cast
    /\ debouncedScenes' = scenes
    /\ castTimer' = NoTimer
    /\ scenesTimer' = NoTimer
    /\ timerOrder' = "cast"
    /\ RunEffect(cast, scenes)
    /\ UNCHANGED <<idb, currentProjectId, isHydratedRef, cast, scenes,
                   hydTimers, lastSavedSignature, loadJob, requests, appBudget>>

\* one saveAsset of a saveProject call succeeds; the last one of a Promise.all
\* resumes the call; a request that outlives a call that threw only writes its blob
\* and its signature
SavePutSettle(job, put) ==
    /\ running = 0
    /\ job \in saves
    /\ put \in job.pending
    /\ idb' = saveAsset(idb, put[1], put[2])
    /\ lastSavedSignature' = lastSavedSignature \cup {Signature(put[1], put[2])}
    /\ LET left == job.pending \ {put}
           j2 == [job EXCEPT !.pending = left]
       IN  IF left # {} \/ job.phase = "failed"
           THEN /\ saves' = (saves \ {job}) \cup (IF left # {} THEN {j2} ELSE {})
                /\ UNCHANGED <<slices, index>>
           ELSE IF job.phase = "cast"
           THEN LET r == SaveScenesPart(j2, slices, index, lastSavedSignature')
                IN  /\ slices' = r.slices
                    /\ index' = r.index
                    /\ saves' = (saves \ {job}) \cup (IF r.done THEN {} ELSE {r.job})
           ELSE /\ index' = SaveMetaPart(j2, index)
                /\ saves' = saves \ {job}
                /\ UNCHANGED slices
    /\ UNCHANGED <<currentProjectId, isHydratedRef, cast, scenes, debouncedCast,
                   debouncedScenes, requests, timerVars, loadJob, appBudget>>

\* lines 213-214 and 221-222: `await saveAsset` throws, the add after it is skipped
AfterRejectAdds(sig, put) == sig \cup {Signature(put[1], put[2])}

AfterReject(sig, put) == sig

\* one saveAsset of a saveProject call throws "Disk Quota Exceeded" (assetStore.ts
\* 54-57): Promise.all rejects, the catch of line 227 ends the call before the
\* statements that were left, the sibling requests go on
SavePutReject(job, put) ==
    /\ running = 0
    /\ job \in saves
    /\ job.phase # "failed"
    /\ put \in job.pending
    /\ lastSavedSignature' = AfterReject(lastSavedSignature, put)
    /\ LET left == job.pending \ {put}
       IN  saves' = (saves \ {job})
                        \cup (IF left # {} THEN {[job EXCEPT !.phase = "failed", !.pending = left]}
                              ELSE {})
    /\ UNCHANGED <<storeVars, currentProjectId, isHydratedRef, cast, scenes, debouncedCast,
                   debouncedScenes, requests, timerVars, loadJob, appBudget>>

(***************************************************************************)
(* App component: handleLoadProject (112-153), handleLaunchStudio (167-186)*)
(***************************************************************************)
isHydrating == loadJob.active

\* lines 136-144: the scenes that wait for getAsset
LoadScenesPart(job) ==
    LET ps == {k \in 1..Len(job.scenes) :
                  job.scenes[k].imageUrl = Null /\ ~job.scenes[k].loading}
    IN  IF ps # {} THEN [job EXCEPT !.phase = "scenes", !.pending = ps]
        ELSE [job EXCEPT !.phase = "done", !.pending = {}]

\* lines 128-135: the cast members that wait for getAsset
LoadCastPart(job) ==
    LET pc == {k \in 1..Len(job.cast) : job.cast[k].image = Null}
    IN  IF pc # {} THEN [job EXCEPT !.phase = "cast", !.pending = pc]
        ELSE LoadScenesPart(job)

\* lines 145-146 and the finally block, once both Promise.all have resolved
ApplyLoad(job) ==
    IF job.phase = "done"
    THEN /\ cast' = job.cast
         /\ scenes' = job.scenes
         /\ castTimer' = setTimeout(CastDebounceMs)
         /\ scenesTimer' = setTimeout(ScenesDebounceMs)
         /\ hydTimers' = hydTimers \cup setTimeout(HydrationDelayMs)
         /\ timerOrder' = "both"
         /\ loadJob' = NoLoad
    ELSE /\ loadJob' = job
         /\ UNCHANGED <<cast, scenes, timerVars>>

handleLoadProject(id) ==
    /\ running = 0
    /\ currentProjectId = Null
    /\ ~isHydrating
    /\ id \in ListedIds
    /\ loadsMade < MaxLoads
    /\ loadsMade' = loadsMade + 1
    /\ isHydratedRef' = FALSE
    /\ lastSavedSignature' = {}
    /\ currentProjectId' = id
    /\ ApplyLoad(LoadCastPart([active |-> TRUE, id |-> id, phase |-> "cast",
                               cast |-> loadProjectData(slices, id, "cast", INITIAL_CAST),
                               scenes |-> loadProjectData(slices, id, "scenes", <<>>),
                               pending |-> {}]))
    /\ UNCHANGED <<storeVars, debouncedCast, debouncedScenes, saves, requests,
                   usedIds, mutsMade>>

\* one getAsset of the load succeeds; the last one of a Promise.all resumes the load
LoadGetSettle(k) ==
    /\ running = 0
    /\ isHydrating
    /\ k \in loadJob.pending
    /\ LET job == loadJob
           key == IF job.phase = "cast" THEN BlobKey("cast", job.cast[k].id)
                  ELSE BlobKey("scene", job.scenes[k].id)
           img == getAsset(idb, key)
           j1 == IF img = Null THEN job
                 ELSE IF job.phase = "cast" THEN [job EXCEPT !.cast[k].image = img]
                 ELSE [job EXCEPT !.scenes[k].imageUrl = img]
           j2 == [j1 EXCEPT !.pending = job.pending \ {k}]
           j3 == IF j2.pending # {} THEN j2
                 ELSE IF job.phase = "cast" THEN LoadScenesPart(j2)
                 ELSE [j2 EXCEPT !.phase = "done"]
       IN  /\ lastSavedSignature' = IF img = Null THEN lastSavedSignature
                                    ELSE lastSavedSignature \cup {Signature(key, img)}
           /\ ApplyLoad(j3)
    /\ UNCHANGED <<storeVars, currentProjectId, isHydratedRef, debouncedCast,
                   debouncedScenes, saves, requests, appBudget>>

\* the blob key the k-th read of the running Promise.all asks for
LoadKey(job, k) ==
    IF job.phase = "cast" THEN BlobKey("cast", job.cast[k].id)
    ELSE BlobKey("scene", job.scenes[k].id)

\* one getAsset of the load fails (request.onerror, assetStore.ts 79): Promise.all
\* rejects, the catch of lines 147-148 notifies, setCast and setScenes of 145-146 are
\* skipped, the finally block ends the load; the sibling reads resolve and record
\* their signatures
LoadGetReject(k) ==
    /\ running = 0
    /\ isHydrating
    /\ k \in loadJob.pending
    /\ lastSavedSignature' =
            lastSavedSignature
                \cup {Signature(LoadKey(loadJob, j), getAsset(idb, LoadKey(loadJob, j))) :
                        j \in {i \in loadJob.pending \ {k} :
                                    getAsset(idb, LoadKey(loadJob, i)) # Null}}
    /\ hydTimers' = hydTimers \cup setTimeout(HydrationDelayMs)
    /\ loadJob' = NoLoad
    /\ UNCHANGED <<storeVars, currentProjectId, isHydratedRef, cast, scenes, debouncedCast,
                   debouncedScenes, castTimer, scenesTimer, timerOrder, saves, requests,
                   appBudget>>

handleLaunchStudio(id) ==
    /\ running = 0
    /\ currentProjectId = Null
    /\ ~isHydrating
    /\ id \in FreshIds(ProjectIds)
    /\ loadsMade < MaxLoads
    /\ loadsMade' = loadsMade + 1
    /\ usedIds' = usedIds \cup {id}
    /\ isHydratedRef' = FALSE
    /\ index' = createProject(index, CurrentUser, id, Manifest(""))
    /\ currentProjectId' = id
    /\ cast' = INITIAL_CAST
    /\ scenes' = <<>>
    /\ castTimer' = setTimeout(CastDebounceMs)
    /\ scenesTimer' = setTimeout(ScenesDebounceMs)
    /\ hydTimers' = hydTimers \cup setTimeout(HydrationDelayMs)
    /\ timerOrder' = "both"
    /\ UNCHANGED <<slices, idb, debouncedCast, debouncedScenes, lastSavedSignature,
                   jobVars, requests, mutsMade>>

\* the header's onClick: setCurrentProjectId(null)
GoHub ==
    /\ running = 0
    /\ currentProjectId # Null
    /\ ~isHydrating
    /\ currentProjectId' = Null
    /\ UNCHANGED <<storeVars, isHydratedRef, cast, scenes, debouncedCast, debouncedScenes,
                   lastSavedSignature, requests, timerVars, jobVars, appBudget>>

\* the 500 ms timer of a load or a launch fires
HydrationTimerFire ==
    /\ running = 0
    /\ Due(hydTimers)
    /\ isHydratedRef' = TRUE
    /\ hydTimers' = hydTimers \ {0}
    /\ UNCHANGED <<storeVars, currentProjectId, cast, scenes, debouncedCast, debouncedScenes,
                   lastSavedSignature, requests, castTimer, scenesTimer, timerOrder,
                   jobVars, appBudget>>

\* time passes: no timer is due, every pending timer comes one tick closer
Tick ==
    /\ running = 0
    /\ ~Due(castTimer) /\ ~Due(scenesTimer) /\ ~Due(hydTimers)
    /\ castTimer \cup scenesTimer \cup hydTimers # {}
    /\ castTimer' = Elapse(castTimer)
    /\ scenesTimer' = Elapse(scenesTimer)
    /\ hydTimers' = Elapse(hydTimers)
    /\ UNCHANGED <<storeVars, memVars, timerOrder, jobVars, appBudget>>

(***************************************************************************)
(* App component: the edits of the open project                            *)
(***************************************************************************)
\* the studio is on screen and takes input
UIReady == running = 0 /\ currentProjectId # Null /\ ~isHydrating /\ mutsMade < MaxMuts

\* setScenes(prev => prev.map(s => s.id === id ? f(s) : s))
MapScene(s, id, f(_)) == [k \in 1..Len(s) |-> IF s[k].id = id THEN f(s[k]) ELSE s[k]]

\* handleCastUpdate(id, { image }) from CastMemberInput (upload or remove)
handleCastUpdate(id, image) ==
    /\ UIReady
    /\ mutsMade' = mutsMade + 1
    /\ cast' = [k \in 1..Len(cast) |->
                   IF cast[k].id = id THEN [cast[k] EXCEPT !.image = image] ELSE cast[k]]
    /\ castTimer' = setTimeout(CastDebounceMs)
    /\ timerOrder' = IF scenesTimer # NoTimer THEN "scenes" ELSE "cast"
    /\ UNCHANGED <<storeVars, currentProjectId, isHydratedRef, scenes, debouncedCast,
                   debouncedScenes, lastSavedSignature, requests, scenesTimer, hydTimers,
                   jobVars, usedIds, loadsMade>>

\* handleGenerateScenes([prompt], ratio): the new scene is appended, loading
handleGenerateScenes(id) ==
    /\ UIReady
    /\ Len(scenes) < MaxScenes
    /\ id \in FreshIds(SceneIds)
    /\ mutsMade' = mutsMade + 1
    /\ usedIds' = usedIds \cup {id}
    /\ scenes' = Append(scenes, [id |-> id, imageUrl |-> Null, loading |-> TRUE,
                                 approvalStatus |-> "draft"])
    /\ requests' = requests \cup {id}
    /\ scenesTimer' = setTimeout(ScenesDebounceMs)
    /\ timerOrder' = "cast"
    /\ UNCHANGED <<storeVars, currentProjectId, isHydratedRef, cast, debouncedCast,
                   debouncedScenes, lastSavedSignature, castTimer, hydTimers,
                   jobVars, loadsMade>>

\* handleEditScene(id, prompt) up to its await
handleEditScene(id) ==
    /\ UIReady
    /\ id \notin requests
    /\ \E k \in 1..Len(scenes) : scenes[k].id = id /\ scenes[k].imageUrl # Null
    /\ mutsMade' = mutsMade + 1
    /\ scenes' = MapScene(scenes, id, LAMBDA s : [s EXCEPT !.loading = TRUE])
    /\ requests' = requests \cup {id}
    /\ scenesTimer' = setTimeout(ScenesDebounceMs)
    /\ timerOrder' = "cast"
    /\ UNCHANGED <<storeVars, currentProjectId, isHydratedRef, cast, debouncedCast,
                   debouncedScenes, lastSavedSignature, castTimer, hydTimers,
                   jobVars, usedIds, loadsMade>>

\* line 264 of handleEditScene: the image the edit replaces goes on the history of a
\* scene that keeps one; the redo stack stays as it is
Edited(s, img) ==
    IF s.imageUrl # Null /\ "history" \in DOMAIN s
    THEN [s EXCEPT !.imageUrl = img, !.loading = FALSE, !.history = Append(@, s.imageUrl)]
    ELSE [s EXCEPT !.imageUrl = img, !.loading = FALSE]

\* the generation service answers (ok) or fails: handleGenerateScenes 245-251,
\* handleEditScene 261-270
SceneResult(id, ok, img) ==
    /\ running = 0
    /\ id \in requests
    /\ requests' = requests \ {id}
    /\ scenes' = MapScene(scenes, id,
                          LAMBDA s : IF ok THEN Edited(s, img)
                                     ELSE [s EXCEPT !.loading = FALSE])
    /\ scenesTimer' = setTimeout(ScenesDebounceMs)
    /\ timerOrder' = "cast"
    /\ UNCHANGED <<storeVars, currentProjectId, isHydratedRef, cast, debouncedCast,
                   debouncedScenes, lastSavedSignature, castTimer, hydTimers,
                   jobVars, appBudget>>

\* handleAction(id, 'approve')
handleApprove(id) ==
    /\ UIReady
    /\ \E k \in 1..Len(scenes) : scenes[k].id = id
    /\ mutsMade' = mutsMade + 1
    /\ scenes' = MapScene(scenes, id,
                          LAMBDA s : [s EXCEPT !.approvalStatus =
                                        IF s.approvalStatus = "approved" THEN "draft"
                                        ELSE "approved"])
    /\ scenesTimer' = setTimeout(ScenesDebounceMs)
    /\ timerOrder' = "cast"
    /\ UNCHANGED <<storeVars, currentProjectId, isHydratedRef, cast, debouncedCast,
                   debouncedScenes, lastSavedSignature, requests, castTimer, hydTimers,
                   jobVars, usedIds, loadsMade>>

\* line 297: the last image of the history comes back, the current one goes on the
\* redo stack
UndoForgets(s) ==
    IF Len(s.history) = 0 THEN s
    ELSE [s EXCEPT !.imageUrl = s.history[Len(s.history)],
                   !.history = SubSeq(s.history, 1, Len(s.history) - 1)]

Undo(s) ==
    IF Len(s.history) = 0 THEN s
    ELSE [s EXCEPT !.imageUrl = s.history[Len(s.history)],
                   !.history = SubSeq(s.history, 1, Len(s.history) - 1),
                   !.redoStack = <<s.imageUrl>> \o s.redoStack]

\* line 298
Redo(s) ==
    IF Len(s.redoStack) = 0 THEN s
    ELSE [s EXCEPT !.imageUrl = s.redoStack[1],
                   !.history = Append(s.history, s.imageUrl),
                   !.redoStack = Tail(s.redoStack)]

\* handleAction(id, 'undo' | 'redo') on a scene that keeps its history
handleAction(id, action) ==
    /\ UIReady
    /\ \E k \in 1..Len(scenes) : scenes[k].id = id /\ "history" \in DOMAIN scenes[k]
    /\ mutsMade' = mutsMade + 1
    /\ scenes' = IF action = "undo" THEN MapScene(scenes, id, Undo)
                 ELSE MapScene(scenes, id, Redo)
    /\ scenesTimer' = setTimeout(ScenesDebounceMs)
    /\ timerOrder' = "cast"
    /\ UNCHANGED <<storeVars, currentProjectId, isHydratedRef, cast, debouncedCast,
                   debouncedScenes, lastSavedSignature, requests, castTimer, hydTimers,
                   jobVars, usedIds, loadsMade>>

(***************************************************************************)
(* App component: the state after sign-in (the hub), and the history       *)
(***************************************************************************)
InitAppMem(ids) ==
    /\ currentProjectId = Null
    /\ isHydratedRef = FALSE
    /\ cast = INITIAL_CAST
    /\ scenes = <<>>
    /\ debouncedCast = INITIAL_CAST
    /\ debouncedScenes = <<>>
    /\ castTimer = NoTimer
    /\ scenesTimer = NoTimer
    /\ hydTimers = NoTimer
    /\ timerOrder = "cast"
    /\ lastSavedSignature = {}
    /\ loadJob = NoLoad
    /\ saves = {}
    /\ requests = {}
    /\ usedIds = ids
    /\ mutsMade = 0
    /\ loadsMade = 0

NoSaved == [valid |-> FALSE, pid |-> "p1", cast |-> <<>>, scenes |-> <<>>]

NoBurst == [n |-> 0, writes |-> 0, open |-> FALSE, held |-> FALSE, pid |-> "p1", state |-> <<>>]

InitAppHist ==
    /\ gate = FALSE
    /\ saved = NoSaved
    /\ justLoaded = Null
    /\ overlap = FALSE
    /\ burst = NoBurst
    /\ deleted = {}

(***************************************************************************)
(* Project files: exportProject (projectService 125-173) and importProject *)
(* (175-219)                                                               *)
(***************************************************************************)
\* the sections of a project file
Sections == {"metadata", "cast", "scenes", "voice", "motion"}

\* no file: every section of it reads as undefined
NoDoc == [file |-> FALSE, metadata |-> Absent, cast |-> Absent, scenes |-> Absent,
          voice |-> Absent, motion |-> Absent]

\* a || b on payloads
Or(a, b) == IF a # Null THEN a ELSE b

\* lines 147-151 and 204: the voice lines with their audio attached, and stripped
FullVoiceLines(db, ls) ==
    [k \in 1..Len(ls) |->
        IF ls[k].audioUrl # Null THEN ls[k]
        ELSE [ls[k] EXCEPT !.audioUrl = getAsset(db, BlobKey("voice", ls[k].id))]]

VoiceMeta(v) ==
    [v EXCEPT !.lines = [k \in 1..Len(v.lines) |-> [v.lines[k] EXCEPT !.audioUrl = Null]]]

\* lines 153-157 and 209: the video jobs with their video attached, and stripped
FullMotion(db, js) ==
    [k \in 1..Len(js) |->
        IF js[k].videoUrl # Null THEN js[k]
        ELSE [js[k] EXCEPT !.videoUrl = getAsset(db, BlobKey("video", js[k].id))]]

MotionKept(js) == js

MotionMeta(js) == [k \in 1..Len(js) |-> [js[k] EXCEPT !.videoUrl = Null]]

\* line 128: getAllProjects(userId).find(p => p.id === projectId)
FindProject(ix, userId, projectId) ==
    LET projects == getAllProjects(ix, userId)
        hits == {k \in 1..Len(projects) : projects[k].id = projectId}
    IN  projects[CHOOSE k \in hits : \A j \in hits : k <= j]

\* exportProject(userId, projectId), lines 131-170, and JSON.parse of its text
exportProject(ix, sl, db, userId, projectId) ==
    LET castMeta == loadProjectData(sl, projectId, "cast", <<>>)
        scenesMeta == loadProjectData(sl, projectId, "scenes", <<>>)
        voiceMeta == loadProjectData(sl, projectId, "voice",
                                     [scriptText |-> "", lines |-> <<>>])
        motionMeta == loadProjectData(sl, projectId, "motion", <<>>)
        fullCast == [k \in 1..Len(castMeta) |->
                        [castMeta[k] EXCEPT !.image =
                            Or(getAsset(db, BlobKey("cast", castMeta[k].id)), castMeta[k].image)]]
        fullScenes == [k \in 1..Len(scenesMeta) |->
                        [scenesMeta[k] EXCEPT !.imageUrl =
                            Or(getAsset(db, BlobKey("scene", scenesMeta[k].id)),
                               scenesMeta[k].imageUrl)]]
    IN  [file |-> TRUE,
         metadata |-> Stored(FindProject(ix, userId, projectId)),
         cast |-> Stored(fullCast),
         scenes |-> Stored(fullScenes),
         voice |-> Stored([voiceMeta EXCEPT !.lines = FullVoiceLines(db, voiceMeta.lines)]),
         motion |-> Stored(FullMotion(db, motionMeta))]

\* ProjectHub.handleExport: the hub's export button; the file replaces the one in hand
handleExport(id) ==
    /\ running = 0
    /\ currentProjectId = Null
    /\ ~isHydrating
    /\ id \in IndexIds(index, CurrentUser)
    /\ doc' = exportProject(index, slices, idb, CurrentUser, id)
    /\ UNCHANGED <<storeVars, appVars, imp, labs>>

\* line 179: the sections importProject asks for
RequiredMetadataOnly == {"metadata"}

Required == {"metadata", "cast", "scenes"}

\* the importProject call: its position, the file it parses, the id it drew, the
\* saveAsset requests it waits for, what it returned
NoImport == [phase |-> "idle", uid |-> "u1", data |-> NoDoc, newId |-> "p1",
             pending |-> {}, quota |-> FALSE, meta |-> Meta("p1")]

ImportEnded == imp.phase \in {"idle", "ok", "failed"}

\* lines 182-187: newMeta
TitleSuffix == " (Imported)"

NewMeta(metadata, newId) ==
    [metadata EXCEPT !.id = newId, !.title = metadata.title \o TitleSuffix,
                     !.lastModified = SessionTime]

\* lines 189-192: projects.unshift(newMeta)
Push(projects, newMeta) == projects \o <<newMeta>>

Unshift(projects, newMeta) == <<newMeta>> \o projects

\* the saveAsset calls of one section, lines 196, 200, 207, 211
ImportPuts(data, section) ==
    CASE section = "cast" ->
            {<<BlobKey("cast", c.id), c.image>> :
                c \in {x \in SeqRange(data.cast.val) : x.image # Null}}
      [] section = "scenes" ->
            {<<BlobKey("scene", s.id), s.imageUrl>> :
                s \in {x \in SeqRange(data.scenes.val) : x.imageUrl # Null}}
      [] section = "voice" ->
            {<<BlobKey("voice", l.id), l.audioUrl>> :
                l \in {x \in SeqRange(data.voice.val.lines) : x.audioUrl # Null}}
      [] section = "motion" ->
            {<<BlobKey("video", j.id), j.videoUrl>> :
                j \in {x \in SeqRange(data.motion.val) : x.videoUrl # Null}}

\* the slice importProject stores for one section, lines 194, 198, 202-205, 209
ImportSlice(data, section) ==
    CASE section = "cast" -> CastMeta(data.cast.val)
      [] section = "scenes" -> ScenesMeta(data.scenes.val)
      [] section = "voice" -> VoiceMeta(data.voice.val)
      [] section = "motion" -> MotionMeta(data.motion.val)

NextSection(section) ==
    CASE section = "cast" -> "scenes"
      [] section = "scenes" -> "voice"
      [] section = "voice" -> "motion"
      [] section = "motion" -> "ok"

\* lines 194-213 from one section on, up to the next await that has to wait; reading
\* .map or .lines of a section the file lacks throws a TypeError (catch, 215-218)
RECURSIVE ImportFrom(_, _, _, _)
ImportFrom(section, call, sl, ix) ==
    IF section = "ok"
    THEN [call |-> [call EXCEPT !.phase = "ok"], slices |-> sl, index |-> ix]
    ELSE IF ~call.data[section].has
    THEN [call |-> [call EXCEPT !.phase = "failed"], slices |-> sl, index |-> ix]
    ELSE LET w == saveProjectData(sl, ix, call.uid, call.newId, section,
                                  ImportSlice(call.data, section))
             puts == ImportPuts(call.data, section)
         IN  IF puts # {}
             THEN [call |-> [call EXCEPT !.phase = section, !.pending = puts],
                   slices |-> w.slices, index |-> w.index]
             ELSE ImportFrom(NextSection(section), call, w.slices, w.index)

\* importProject(user, jsonString), lines 177-196: up to its first await that has to
\* wait; a file that fails the test of line 179 makes it throw before any write
importProject(userId, data, newId) ==
    /\ running = 0
    /\ ImportEnded
    /\ imp.pending = {}
    /\ data.file
    /\ IF \E s \in Required : ~data[s].has
       THEN /\ imp' = [NoImport EXCEPT !.phase = "failed", !.uid = userId, !.data = data]
            /\ UNCHANGED <<storeVars, usedIds>>
       ELSE /\ newId \in FreshIds(ProjectIds)
            /\ usedIds' = usedIds \cup {newId}
            /\ LET newMeta == NewMeta(data.metadata.val, newId)
                   ix == [index EXCEPT ![userId] =
                            Stored(Unshift(getAllProjects(index, userId), newMeta))]
                   r == ImportFrom("cast",
                                   [NoImport EXCEPT !.uid = userId, !.data = data,
                                                    !.newId = newId, !.meta = newMeta],
                                   slices, ix)
               IN  /\ imp' = r.call
                   /\ slices' = r.slices
                   /\ index' = r.index
            /\ UNCHANGED idb
    /\ UNCHANGED <<memVars, timerVars, jobVars, mutsMade, loadsMade, doc, labs>>

\* ProjectHub.handleFileChange (part_010 66-83): the hub's import button, for the
\* signed-in user
handleFileChange(data, newId) ==
    /\ currentProjectId = Null
    /\ ~isHydrating
    /\ importProject(CurrentUser, data, newId)

\* one saveAsset of importProject succeeds; the last one of a Promise.all resumes the
\* call, and a request that outlives a failed call only writes its blob
ImportPutSettle(put) ==
    /\ running = 0
    /\ put \in imp.pending
    /\ idb' = saveAsset(idb, put[1], put[2])
    /\ LET left == imp.pending \ {put}
           call == [imp EXCEPT !.pending = left]
       IN  IF left # {} \/ imp.phase = "failed"
           THEN /\ imp' = call
                /\ UNCHANGED <<slices, index>>
           ELSE LET r == ImportFrom(NextSection(imp.phase), call, slices, index)
                IN  /\ imp' = r.call
                    /\ slices' = r.slices
                    /\ index' = r.index
    /\ UNCHANGED <<appVars, doc, labs>>

\* one saveAsset of importProject throws "Disk Quota Exceeded": Promise.all rejects,
\* the catch of lines 215-218 ends the call, the sibling requests go on
ImportPutReject(put) ==
    /\ running = 0
    /\ put \in imp.pending
    /\ imp.phase \notin {"failed", "ok", "idle"}
    /\ imp' = [imp EXCEPT !.phase = "failed", !.quota = TRUE, !.pending = imp.pending \ {put}]
    /\ UNCHANGED <<storeVars, appVars, doc, labs>>

(***************************************************************************)
(* VoiceLab (part_006) and CinemaLab (components/CinemaLab.tsx): the       *)
(* auto-save effects and what the hydration effects read                   *)
(***************************************************************************)
\* the refs lastSavedAudio and lastSavedVideo, and the saveAsset requests in flight
NoLabs == [audio |-> {}, video |-> {}, puts |-> {}]

\* VoiceLab lines 56-61: the audio the save effect writes
VoicePuts(ls, sig) ==
    {<<BlobKey("voice", l.id), l.audioUrl>> :
        l \in {x \in SeqRange(ls) : x.audioUrl # Null
                                    /\ Signature(BlobKey("voice", x.id), x.audioUrl) \notin sig}}

\* CinemaLab lines 45-51: the videos the save effect writes
MotionPuts(js, sig) ==
    {<<BlobKey("video", j.id), j.videoUrl>> :
        j \in {x \in SeqRange(js) : x.videoUrl # Null /\ x.status = "completed"
                                    /\ Signature(BlobKey("video", x.id), x.videoUrl) \notin sig}}

\* VoiceLab lines 52-63: the 1000 ms timer of the save effect fires with the script
\* and the lines the component holds
VoiceLabSave(scriptText, ls) ==
    /\ running = 0
    /\ currentProjectId # Null
    /\ LET w == saveProjectData(slices, index, CurrentUser, currentProjectId, "voice",
                                VoiceMeta([scriptText |-> scriptText, lines |-> ls]))
       IN  /\ slices' = w.slices
           /\ index' = w.index
    /\ labs' = [labs EXCEPT !.puts = @ \cup ({"audio"} \X VoicePuts(ls, labs.audio))]
    /\ UNCHANGED <<idb, appVars, doc, imp>>

\* CinemaLab lines 41-53: the 2000 ms timer of the save effect fires with the jobs
\* the component holds
CinemaLabSave(js) ==
    /\ running = 0
    /\ currentProjectId # Null
    /\ LET w == saveProjectData(slices, index, CurrentUser, currentProjectId, "motion",
                                MotionMeta(js))
       IN  /\ slices' = w.slices
           /\ index' = w.index
    /\ labs' = [labs EXCEPT !.puts = @ \cup ({"video"} \X MotionPuts(js, labs.video))]
    /\ UNCHANGED <<idb, appVars, doc, imp>>

\* one saveAsset of a lab succeeds and its signature is recorded
LabPutSettle(p) ==
    /\ running = 0
    /\ p \in labs.puts
    /\ idb' = saveAsset(idb, p[2][1], p[2][2])
    /\ labs' = [labs EXCEPT !.puts = @ \ {p},
                            ![p[1]] = @ \cup {Signature(p[2][1], p[2][2])}]
    /\ UNCHANGED <<index, slices, appVars, doc, imp>>

\* VoiceLab lines 26-47: the script and the lines the component holds once hydrate()
\* has run, and the signatures it recorded
VoiceLabHydrate(sl, db, id) ==
    LET data == loadProjectData(sl, id, "voice", [scriptText |-> "", lines |-> <<>>])
    IN  IF data.scriptText = "" THEN [scriptText |-> "", lines |-> <<>>, sigs |-> {}]
        ELSE [scriptText |-> data.scriptText, lines |-> FullVoiceLines(db, data.lines),
              sigs |-> {Signature(BlobKey("voice", l.id), getAsset(db, BlobKey("voice", l.id))) :
                          l \in {x \in SeqRange(data.lines) :
                                    x.audioUrl = Null
                                    /\ getAsset(db, BlobKey("voice", x.id)) # Null}}]

\* CinemaLab lines 21-37
CinemaLabHydrate(sl, db, id) ==
    LET js == loadProjectData(sl, id, "motion", <<>>)
        waits(j) == j.status = "completed" /\ j.videoUrl = Null
    IN  [jobs |-> [k \in 1..Len(js) |->
                    IF waits(js[k]) /\ getAsset(db, BlobKey("video", js[k].id)) # Null
                    THEN [js[k] EXCEPT !.videoUrl = getAsset(db, BlobKey("video", js[k].id))]
                    ELSE js[k]],
         sigs |-> {Signature(BlobKey("video", j.id), getAsset(db, BlobKey("video", j.id))) :
                     j \in {x \in SeqRange(js) :
                                waits(x) /\ getAsset(db, BlobKey("video", x.id)) # Null}}]

\* VoiceLab is mounted on the open project: hydrate() runs, and with no edit the
\* 1000 ms timer of the save effect fires with what hydrate() left
VoiceLabOpen ==
    /\ running = 0
    /\ currentProjectId # Null
    /\ ~isHydrating
    /\ LET h == VoiceLabHydrate(slices, idb, currentProjectId)
           w == saveProjectData(slices, index, CurrentUser, currentProjectId, "voice",
                                VoiceMeta([scriptText |-> h.scriptText, lines |-> h.lines]))
       IN  /\ slices' = w.slices
           /\ index' = w.index
           /\ labs' = [labs EXCEPT !.audio = h.sigs,
                                   !.puts = @ \cup ({"audio"} \X VoicePuts(h.lines, h.sigs))]
    /\ UNCHANGED <<idb, appVars, doc, imp>>

\* CinemaLab is mounted on the open project: hydrate() runs, and with no edit the
\* 2000 ms timer of the save effect fires with the jobs hydrate() left
CinemaLabOpen ==
    /\ running = 0
    /\ currentProjectId # Null
    /\ ~isHydrating
    /\ LET h == CinemaLabHydrate(slices, idb, currentProjectId)
           w == saveProjectData(slices, index, CurrentUser, currentProjectId, "motion",
                                MotionMeta(h.jobs))
       IN  /\ slices' = w.slices
           /\ index' = w.index
           /\ labs' = [labs EXCEPT !.video = h.sigs,
                                   !.puts = @ \cup ({"video"} \X MotionPuts(h.jobs, h.sigs))]
    /\ UNCHANGED <<idb, appVars, doc, imp>>

\* what handleLoadProject (App.tsx 126-146) puts in memory when every read succeeds
HydratedCast(sl, db, id) ==
    LET c == loadProjectData(sl, id, "cast", INITIAL_CAST)
    IN  [k \in 1..Len(c) |->
            IF c[k].image # Null THEN c[k]
            ELSE [c[k] EXCEPT !.image = getAsset(db, BlobKey("cast", c[k].id))]]

HydratedScenes(sl, db, id) ==
    LET s == loadProjectData(sl, id, "scenes", <<>>)
    IN  [k \in 1..Len(s) |->
            IF s[k].imageUrl # Null \/ s[k].loading THEN s[k]
            ELSE [s[k] EXCEPT !.imageUrl = getAsset(db, BlobKey("scene", s[k].id))]]

\* what VoiceLab's hydration effect (26-48) puts in memory: nothing of a slice that is
\* missing or whose scriptText is empty
HydratedVoice(sl, db, id) ==
    LET data == loadProjectData(sl, id, "voice", [scriptText |-> "", lines |-> <<>>])
    IN  IF data.scriptText = "" THEN [scriptText |-> "", lines |-> <<>>]
        ELSE [scriptText |-> data.scriptText, lines |-> FullVoiceLines(db, data.lines)]

\* what CinemaLab's hydration effect (21-37) puts in memory
HydratedMotion(sl, db, id) ==
    LET js == loadProjectData(sl, id, "motion", <<>>)
    IN  [k \in 1..Len(js) |->
            IF js[k].status = "completed" /\ js[k].videoUrl = Null
            THEN [js[k] EXCEPT !.videoUrl = getAsset(db, BlobKey("video", js[k].id))]
            ELSE js[k]]

\* the content of a project once loaded and hydrated
Content(sl, db, id) ==
    [cast |-> HydratedCast(sl, db, id), scenes |-> HydratedScenes(sl, db, id),
     voice |-> HydratedVoice(sl, db, id), motion |-> HydratedMotion(sl, db, id)]

(***************************************************************************)
(* services/assetStore: checkQuotaSafe (27-48) and saveAsset (51-68)       *)
(***************************************************************************)
\* the largest usage and quota an estimate reports
MaxUsage == 3

MaxQuota == 3

\* navigator.storage.estimate(): missing from the browser, throwing, or resolving
\* with usage and quota
NoEstimate == [kind |-> "missing", usage |-> 0, quota |-> 0]

\* lines 28-47; in JavaScript the number 0 is falsy
checkQuotaSafe(est, payloadSize) ==
    IF est.kind = "missing" THEN TRUE
    ELSE IF est.kind = "throws" THEN TRUE
    ELSE IF est.usage # 0 /\ est.quota # 0
    THEN ~(est.quota - est.usage < payloadSize)
    ELSE TRUE

\* the estimates the platform answers with: usage and quota in units of one character
Estimates ==
    {NoEstimate, [kind |-> "throws", usage |-> 0, quota |-> 0]}
        \cup {e \in [kind : {"ok"}, usage : 0..MaxUsage, quota : 0..MaxQuota] :
                    e.usage <= e.quota}

NoAssetCall == [phase |-> "idle", key |-> BlobKey("cast", "1"), data |-> "A",
                est |-> NoEstimate]

AssetCallEnded == assetCall.phase \in {"idle", "resolved", "thrown", "rejected"}

\* line 51: saveAsset(key, data) is called
saveAssetCall(key, data) ==
    /\ AssetCallEnded
    /\ assetCall' = [phase |-> "checking", key |-> key, data |-> data, est |-> NoEstimate]
    /\ UNCHANGED <<storeVars, estimate>>

\* lines 54-57: `await checkQuotaSafe(data.length)` with the estimate of the moment,
\* then the throw of "Disk Quota Exceeded" or the way on to openDB
saveAssetCheck ==
    /\ assetCall.phase = "checking"
    /\ assetCall' = [assetCall EXCEPT
                        !.phase = IF checkQuotaSafe(estimate, Len(assetCall.data))
                                  THEN "opened" ELSE "thrown",
                        !.est = estimate]
    /\ UNCHANGED <<storeVars, estimate>>

\* lines 59-65: store.put(data, key) and request.onsuccess
saveAssetPut ==
    /\ assetCall.phase = "opened"
    /\ idb' = saveAsset(idb, assetCall.key, assetCall.data)
    /\ assetCall' = [assetCall EXCEPT !.phase = "resolved"]
    /\ UNCHANGED <<index, slices, estimate>>

\* line 66: request.onerror, the put is not made
saveAssetPutError ==
    /\ assetCall.phase = "opened"
    /\ assetCall' = [assetCall EXCEPT !.phase = "rejected"]
    /\ UNCHANGED <<storeVars, estimate>>

\* the platform's estimate changes between two calls (other writes, other origins)
StorageChanges(e) ==
    /\ AssetCallEnded
    /\ e \in Estimates \ {estimate}
    /\ estimate' = e
    /\ UNCHANGED <<storeVars, assetCall>>

NoBefore == [valid |-> FALSE, index |-> NoIndex,
             slices |-> [p \in ProjectIds |-> NoSlices],
             idb |-> [k \in BlobKeys |-> Null]]

\* history of failed requests: none yet
NoFailedGet == [ended |-> FALSE, id |-> "p1", keys |-> {}]

NoRet == [n |-> 0, op |-> "none"]

\* the personal view: no entry of the listing carries an ownerId
InitView ==
    /\ projectList = <<>>
    /\ isAdminView = FALSE

InitMore ==
    /\ InitView
    /\ delAll = NoDelAll
    /\ delUser = NoDelUser

InitAux ==
    /\ written = [k \in BlobKeys |-> Null]
    /\ allUsers = Stored(<<UserRec("u1"), UserRec("u2")>>)
    /\ ret = NoRet
    /\ InitMore

InitPortFault ==
    /\ doc = NoDoc
    /\ imp = NoImport
    /\ labs = NoLabs
    /\ untouched = FALSE
    /\ before = NoBefore
    /\ failedPut = {}
    /\ failedGet = NoFailedGet

InitExt ==
    /\ InitPortFault
    /\ estimate = NoEstimate
    /\ assetCall = NoAssetCall
    /\ kept = [k \in BlobKeys |-> Null]
    /\ InitAux

(***************************************************************************)
(* Specification SpecDelete: concurrent deleteProject calls and a process  *)
(* kill                                                                    *)
(***************************************************************************)
NoInfo == [read |-> NoSlices, listed |-> FALSE, blobs |-> FALSE]

NoDone == [valid |-> FALSE, uid |-> "u1", id |-> "p1", info |-> NoInfo]

\* the derived blob keys of the entities of a project's slices (section 3 of the spec)
EntityKeys(read) ==
    LET ents(s) == IF read[s].has THEN SeqRange(read[s].val) ELSE {}
        lines == IF read["voice"].has THEN SeqRange(read["voice"].val.lines) ELSE {}
    IN  {BlobKey("cast", e.id) : e \in ents("cast")}
            \cup {BlobKey("scene", e.id) : e \in ents("scenes")}
            \cup {BlobKey("voice", e.id) : e \in lines}
            \cup {BlobKey("video", e.id) : e \in ents("motion")}

\* what a call deleteProject(u, id) starting now finds in the stores: the slices, whether
\* the index lists the project, whether an entity of the slices has a blob
InfoAtStart(u, id) ==
    [read |-> slices[id], listed |-> id \in IndexIds(index, u),
     blobs |-> \E k \in EntityKeys(slices[id]) : idb[k] # Null]

InitDelete ==
    /\ InitStores
    /\ InitCalls
    /\ callInfo = [i \in DelSlots |-> NoInfo]
    /\ lastDone = NoDone
    /\ interrupted = {}
    /\ firstSnap = NoSnap
    /\ assetSnap = NoAssetSnap
    /\ assetTwice = FALSE
    /\ InitAppMem({})
    /\ InitAppHist
    /\ InitExt

DStart(i, u, id) ==
    /\ DeleteProjectStart(i, u, id)
    /\ callInfo' = [callInfo EXCEPT ![i] = InfoAtStart(u, id)]
    /\ UNCHANGED <<lastDone, interrupted, firstSnap, assetSnap, assetTwice>>
    /\ UNCHANGED <<appSide, extSide>>

DSettle(i, k) ==
    /\ DeleteAssetSettle(i, k)
    /\ UNCHANGED delHist
    /\ UNCHANGED <<appSide, extSide>>

DReject(i, k) ==
    /\ DeleteAssetReject(i, k)
    /\ callInfo' = [callInfo EXCEPT ![i] = NoInfo]
    /\ UNCHANGED <<lastDone, interrupted, firstSnap, assetSnap, assetTwice>>
    /\ UNCHANGED <<appSide, extSide>>

DDetached(k) ==
    /\ DetachedSettle(k)
    /\ UNCHANGED delHist
    /\ UNCHANGED <<appSide, extSide>>

DStep(i) ==
    /\ DeleteProjectStep(i)
    /\ lastDone' = IF Returns(i)
                   THEN [valid |-> TRUE, uid |-> dels[i].uid, id |-> dels[i].id,
                         info |-> callInfo[i]]
                   ELSE lastDone
    /\ callInfo' = IF Returns(i) THEN [callInfo EXCEPT ![i] = NoInfo] ELSE callInfo
    /\ UNCHANGED <<interrupted, firstSnap, assetSnap, assetTwice>>
    /\ UNCHANGED <<appSide, extSide>>

DCrash ==
    /\ Crash
    /\ interrupted' = {[uid |-> dels[i].uid, id |-> dels[i].id,
                        had |-> {s \in SliceNames : callInfo[i].read[s].has}] :
                          i \in {j \in DelSlots : dels[j].pc # "idle"}}
    /\ callInfo' = [i \in DelSlots |-> NoInfo]
    /\ UNCHANGED <<lastDone, firstSnap, assetSnap, assetTwice>>
    /\ UNCHANGED <<appSide, extSide>>

NextDelete ==
    \/ \E i \in DelSlots, u \in Users, id \in ProjectIds : DStart(i, u, id)
    \/ \E i \in DelSlots, k \in BlobKeys : DSettle(i, k)
    \/ \E i \in DelSlots, k \in BlobKeys : DReject(i, k)
    \/ \E k \in BlobKeys : DDetached(k)
    \/ \E i \in DelSlots : DStep(i)
    \/ DCrash

SpecDelete == InitDelete /\ [][NextDelete]_vars

\* C6: once deleteProject(userId, id) has returned, getAsset gives null for the
\* derived key of every entity its four slices held, the five slice keys of the
\* project are absent, and the index of userId has no entry with that id.
DeleteProjectPost ==
    lastDone.valid =>
        /\ \A k \in EntityKeys(lastDone.info.read) : getAsset(idb, k) = Null
        /\ \A s \in SliceNames : ~slices[lastDone.id][s].has
        /\ lastDone.id \notin IndexIds(index, lastDone.uid)

\* a call returned that found the project listed, with slices, and with blobs to delete
DeleteProjectPostWitness ==
    /\ lastDone.valid
    /\ lastDone.info.listed
    /\ lastDone.info.read["voice"].has
    /\ lastDone.info.blobs

\* C7: within deleteProject, a slice key is removed only by a call all of whose blob
\* deletions have settled, and the index entry is removed only once the four slice
\* keys and the prompt-draft key are gone.
DeleteOrdering ==
    [][\A p \in ProjectIds :
        /\ (\E s \in SliceNames : slices[p][s].has /\ ~slices'[p][s].has)
              => (running # 0 /\ dels[running].id = p /\ dels[running].pending = {}
                    /\ \A k \in EntityKeys(callInfo[running].read) : idb[k] = Null)
        /\ \A u \in Users :
              (p \in IndexIds(index, u) /\ p \notin IndexIds(index', u))
                  => \A s \in SliceNames : ~slices[p][s].has]_vars

\* a call about to remove the index entry, after deleting blobs and removing slice keys
DeleteOrderingWitness ==
    \E i \in DelSlots :
        /\ dels[i].pc = "index"
        /\ running = i
        /\ dels[i].id \in IndexIds(index, dels[i].uid)
        /\ callInfo[i].read["cast"].has
        /\ callInfo[i].blobs

\* C8: a deleteProject cut off by a process kill never leaves the project's entry in
\* the index while the slice keys the project had are already deleted.
NoDanglingIndexEntry ==
    \A r \in interrupted :
        ~(/\ r.id \in IndexIds(index, r.uid)
          /\ r.had # {}
          /\ \A s \in r.had : ~slices[r.id][s].has)

(***************************************************************************)
(* Specification SpecTwice: deleteProject and deleteAsset called one after *)
(* the other, each call running to completion                              *)
(***************************************************************************)
Stores == <<index, slices, idb>>

InitTwice == InitDelete

TStart(u, id) ==
    /\ DeleteProjectStart(1, u, id)
    /\ callInfo' = [callInfo EXCEPT ![1] = InfoAtStart(u, id)]
    /\ firstSnap' = IF firstSnap.valid /\ firstSnap.uid = u /\ firstSnap.id = id
                    THEN firstSnap ELSE NoSnap
    /\ UNCHANGED <<lastDone, interrupted, assetSnap, assetTwice>>
    /\ UNCHANGED <<appSide, extSide>>

TSettle(k) ==
    /\ DeleteAssetSettle(1, k)
    /\ assetSnap' = IF idb' # idb THEN NoAssetSnap ELSE assetSnap
    /\ UNCHANGED <<callInfo, lastDone, interrupted, firstSnap, assetTwice>>
    /\ UNCHANGED <<appSide, extSide>>

TStep ==
    /\ DeleteProjectStep(1)
    /\ firstSnap' = IF ~Returns(1) THEN firstSnap
                    ELSE IF firstSnap.valid THEN [firstSnap EXCEPT !.twice = TRUE]
                    ELSE [valid |-> TRUE, twice |-> FALSE,
                          changed |-> callInfo[1].listed /\ callInfo[1].read["cast"].has,
                          uid |-> dels[1].uid, id |-> dels[1].id,
                          st |-> <<index', slices', idb'>>]
    /\ callInfo' = IF Returns(1) THEN [callInfo EXCEPT ![1] = NoInfo] ELSE callInfo
    /\ UNCHANGED <<lastDone, interrupted, assetSnap, assetTwice>>
    /\ UNCHANGED <<appSide, extSide>>

TAsset(k) ==
    /\ DeleteAssetOp(k)
    /\ assetSnap' = IF assetSnap.valid /\ assetSnap.key = k
                    THEN [assetSnap EXCEPT !.twice = TRUE]
                    ELSE [valid |-> TRUE, twice |-> FALSE, changed |-> idb[k] # Null,
                          key |-> k, db |-> idb']
    /\ assetTwice' = (assetTwice \/ (assetSnap.valid /\ assetSnap.key = k /\ assetSnap.changed))
    /\ firstSnap' = IF idb' # idb THEN NoSnap ELSE firstSnap
    /\ UNCHANGED <<callInfo, lastDone, interrupted>>
    /\ UNCHANGED <<appSide, extSide>>

NextTwice ==
    \/ \E u \in Users, id \in ProjectIds : TStart(u, id)
    \/ \E k \in BlobKeys : TSettle(k)
    \/ TStep
    \/ \E k \in BlobKeys : TAsset(k)

SpecTwice == InitTwice /\ [][NextTwice]_vars

\* C10: a second deleteAsset(key), and a second deleteProject(userId, id), leave the
\* Blob Store and the Metadata Store as the first call left them, and the second
\* deleteProject has no blob deletion to wait for or to fail on.
IdempotentDelete ==
    /\ firstSnap.valid =>
          /\ Stores = firstSnap.st
          /\ dels[1].pending = {}
          /\ dels[1].pc # "idle" => (dels[1].uid = firstSnap.uid /\ dels[1].id = firstSnap.id)
    /\ assetSnap.valid => idb = assetSnap.db

\* both second calls have returned, after first calls that did remove something
IdempotentDeleteWitness ==
    /\ firstSnap.valid /\ firstSnap.twice /\ firstSnap.changed
    /\ assetTwice

(***************************************************************************)
(* Specification SpecApp: one signed-in user opening, editing and leaving  *)
(* projects while the timers and the asynchronous store requests run       *)
(***************************************************************************)
\* the stores a session starts from: one project saved earlier, its cast image and
\* its scene image in the Blob Store
InitAppStores ==
    /\ index = [NoIndex EXCEPT !["u1"] = Stored(<<SavedMeta("p1", CastScenesSlices("s1"))>>)]
    /\ slices = [p \in ProjectIds |-> IF p = "p1" THEN CastScenesSlices("s1") ELSE NoSlices]
    /\ idb = [k \in BlobKeys |->
                    IF k = BlobKey("cast", "1") THEN "A"
                    ELSE IF k = BlobKey("scene", "s1") THEN "S"
                    ELSE Null]
    /\ InitAppMem({"p1", "s1"})

InitApp ==
    /\ InitAppStores
    /\ InitAppHist
    /\ InitCalls
    /\ callInfo = [i \in DelSlots |-> NoInfo]
    /\ lastDone = NoDone
    /\ interrupted = {}
    /\ firstSnap = NoSnap
    /\ assetSnap = NoAssetSnap
    /\ assetTwice = FALSE
    /\ InitExt

HasBinary(job) ==
    \/ \E e \in SeqRange(job.cast) : e.image # Null
    \/ \E e \in SeqRange(job.scenes) : e.imageUrl # Null

\* what a saveProject call that completes now leaves to compare a later load with
SavedRec(job) ==
    IF isHydrating \/ ~HasBinary(job) THEN NoSaved
    ELSE [valid |-> TRUE, pid |-> job.pid, cast |-> job.cast, scenes |-> job.scenes]

Capped(n) == IF n > 2 THEN 2 ELSE n

\* a saveProject call starting now writes the cast slice of the burst's project
WritesBurstSlice == burst.open /\ EffectRuns /\ currentProjectId = burst.pid

\* the history after the auto-save effect ran with dc and ds; closes tells whether the
\* debounce window of cast ends with this run
AfterEffect(dc, ds, closes) ==
    LET completes == EffectRuns /\ EffectResult(dc, ds).done
        job == [pid |-> currentProjectId, cast |-> dc, scenes |-> ds]
    IN  /\ gate' = (isHydrating /\ EffectRuns)
        /\ saved' = IF completes THEN SavedRec(job) ELSE saved
        /\ justLoaded' = IF completes THEN Null ELSE justLoaded
        /\ overlap' = overlap
        /\ burst' = IF ~burst.open THEN burst
                    ELSE IF closes
                    THEN [n |-> burst.n,
                          writes |-> Capped(burst.writes + (IF WritesBurstSlice THEN 1 ELSE 0)),
                          open |-> FALSE,
                          held |-> WritesBurstSlice /\ dc = burst.state,
                          pid |-> burst.pid, state |-> <<>>]
                    ELSE [burst EXCEPT !.writes =
                            Capped(burst.writes + (IF WritesBurstSlice THEN 1 ELSE 0))]
        /\ UNCHANGED <<deleted, delSide, extSide>>

ACastFire == CastDebounceFire /\ AfterEffect(cast, debouncedScenes, TRUE)

AScenesFire == ScenesDebounceFire /\ AfterEffect(debouncedCast, scenes, FALSE)

ABothFire == BothDebounceFire /\ AfterEffect(cast, scenes, TRUE)

\* the saveProject call returns on this put
PutCompletes(job, put) ==
    /\ job.pending = {put}
    /\ job.phase # "failed"
    /\ \/ job.phase = "scenes"
       \/ SaveScenesPart([job EXCEPT !.pending = {}], slices, index,
                         lastSavedSignature \cup {Signature(put[1], put[2])}).done

ASavePut(job, put) ==
    /\ SavePutSettle(job, put)
    /\ gate' = isHydrating
    /\ saved' = IF PutCompletes(job, put) THEN SavedRec(job) ELSE NoSaved
    /\ justLoaded' = IF PutCompletes(job, put) THEN Null ELSE justLoaded
    /\ UNCHANGED <<overlap, burst, deleted, delSide, extSide>>

ALoad(id) ==
    /\ handleLoadProject(id)
    /\ gate' = FALSE
    /\ justLoaded' = IF loadJob'.active THEN Null ELSE id
    /\ overlap' = FALSE
    /\ UNCHANGED <<saved, burst, deleted, delSide, extSide>>

ALoadGet(k) ==
    /\ LoadGetSettle(k)
    /\ gate' = FALSE
    /\ justLoaded' = IF loadJob'.active THEN Null ELSE loadJob.id
    /\ UNCHANGED <<saved, overlap, burst, deleted, delSide, extSide>>

ALaunch(id) ==
    /\ handleLaunchStudio(id)
    /\ gate' = FALSE
    /\ justLoaded' = Null
    /\ overlap' = FALSE
    /\ UNCHANGED <<saved, burst, deleted, delSide, extSide>>

AGoHub ==
    /\ GoHub
    /\ gate' = FALSE
    /\ overlap' = FALSE
    /\ UNCHANGED <<saved, justLoaded, burst, deleted, delSide, extSide>>

AHydrationTimer ==
    /\ HydrationTimerFire
    /\ gate' = FALSE
    /\ UNCHANGED <<saved, justLoaded, overlap, burst, deleted, delSide, extSide>>

ATick ==
    /\ Tick
    /\ gate' = FALSE
    /\ UNCHANGED <<saved, justLoaded, overlap, burst, deleted, delSide, extSide>>

\* the history after an edit of cast or scenes
AfterEdit ==
    /\ gate' = FALSE
    /\ justLoaded' = Null
    /\ overlap' = (overlap \/ (currentProjectId # Null
                               /\ \E j \in saves : j.pid = currentProjectId))
    /\ UNCHANGED <<saved, deleted, delSide, extSide>>

ACastUpdate(id, image) ==
    /\ handleCastUpdate(id, image)
    /\ AfterEdit
    /\ burst' = IF burst.open
                THEN [burst EXCEPT !.n = burst.n + 1, !.state = cast']
                ELSE [n |-> 1, writes |-> 0, open |-> TRUE, held |-> FALSE,
                      pid |-> currentProjectId, state |-> cast']

AGenerate(id) == handleGenerateScenes(id) /\ AfterEdit /\ UNCHANGED burst

AEditScene(id) == handleEditScene(id) /\ AfterEdit /\ UNCHANGED burst

ASceneResult(id, ok, img) == SceneResult(id, ok, img) /\ AfterEdit /\ UNCHANGED burst

AApprove(id) == handleApprove(id) /\ AfterEdit /\ UNCHANGED burst

NextApp ==
    \/ \E id \in ProjectIds : ALoad(id)
    \/ \E k \in 1..MaxScenes : ALoadGet(k)
    \/ \E id \in ProjectIds : ALaunch(id)
    \/ AGoHub
    \/ AHydrationTimer
    \/ ATick
    \/ ACastFire
    \/ AScenesFire
    \/ ABothFire
    \/ \E job \in saves : \E put \in job.pending : ASavePut(job, put)
    \/ \E id \in CastIds, image \in CastUploads(currentProjectId) \cup {Null} :
            ACastUpdate(id, image)
    \/ \E id \in SceneIds : AGenerate(id)
    \/ \E id \in SceneIds : AEditScene(id)
    \/ \E id \in SceneIds, ok \in BOOLEAN, img \in ScenePayloads : ASceneResult(id, ok, img)
    \/ \E id \in SceneIds : AApprove(id)

SpecApp == InitApp /\ [][NextApp]_vars

\* C1: every cast member and scene whose binary field was non-null when a saveProject
\* call completed comes back field for field, binary included, from a later load of
\* the same project, when no blob was written in between.
RoundTrip ==
    (justLoaded # Null /\ saved.valid /\ saved.pid = justLoaded) =>
        /\ \A e \in SeqRange(saved.cast) : e.image # Null => e \in SeqRange(cast)
        /\ \A e \in SeqRange(saved.scenes) : e.imageUrl # Null => e \in SeqRange(scenes)

\* C2: hydration never gives a cast member of the loaded project an image that belongs
\* to another project.
NoCrossProjectLeak ==
    justLoaded # Null =>
        \A e \in SeqRange(cast) : e.image \in CastPayloads(justLoaded) \cup {Null}

\* C3: while a load is hydrating, no auto-save writes a slice of the loading project
\* or a blob.
HydrationGate == ~gate

\* C4: when the open project was edited while a saveProject call was in flight, then
\* once no call is in flight and no debounce timer is pending, the cast and scenes
\* slices and the blobs at the derived keys hold the state in memory.
ConvergesAfterOverlap ==
    (/\ overlap
     /\ currentProjectId # Null
     /\ saves = {}
     /\ castTimer = NoTimer
     /\ scenesTimer = NoTimer) =>
        /\ slices[currentProjectId]["cast"] = Stored(CastMeta(cast))
        /\ slices[currentProjectId]["scenes"] = Stored(ScenesMeta(scenes))
        /\ \A e \in SeqRange(cast) : e.image # Null => idb[BlobKey("cast", e.id)] = e.image
        /\ \A e \in SeqRange(scenes) :
                e.imageUrl # Null => idb[BlobKey("scene", e.id)] = e.imageUrl

\* C5: once the debounce window of N >= 1 cast edits has run out, the cast slice has
\* been written exactly once since the first of them, with the cast as the Nth left it.
OneWritePerWindow ==
    (~burst.open /\ burst.n >= 1) => (burst.writes = 1 /\ burst.held)

(***************************************************************************)
(* Specification SpecIndex: the hub's delete button, the auto-save of the  *)
(* open project and registry calls made with the id of a deleted project   *)
(***************************************************************************)
\* projects opened (loaded or launched) in one run of SpecIndex or SpecPort
MaxIndexLoads == 1

\* cast edits in one run of SpecIndex or SpecPort
MaxIndexMuts == 1

\* handleDeleteProject(id), App.tsx 155-165, up to `await deleteProject(ownerId, id)`
handleDeleteProject(i, id) ==
    /\ currentProjectId = Null
    /\ ~isHydrating
    /\ id \in IndexIds(index, CurrentUser)
    /\ DeleteProjectStart(i, CurrentUser, id)

\* what a caller passes as the data of a slice
EmptySlice(keySuffix) ==
    IF keySuffix = "voice" THEN [scriptText |-> "", lines |-> <<>>] ELSE <<>>

\* saveProjectData(userId, id, keySuffix, data) called with an id the caller still holds
StaleSaveProjectData(userId, id, keySuffix) ==
    /\ running = 0
    /\ LET w == saveProjectData(slices, index, userId, id, keySuffix, EmptySlice(keySuffix))
       IN  slices' = w.slices /\ index' = w.index
    /\ UNCHANGED idb

\* updateProjectMeta(userId, id, { sceneCount }) called with an id the caller still holds
StaleUpdateProjectMeta(userId, id) ==
    /\ running = 0
    /\ index' = updateProjectMeta(index, userId, id, [sceneCount |-> 0])
    /\ UNCHANGED <<slices, idb>>

RECURSIVE TailFrom(_, _, _, _, _)
\* lines 87-95 run from statement pc to the end of deleteProject
TailFrom(pc, sl, ix, userId, id) ==
    IF pc = "done" THEN [slices |-> sl, index |-> ix]
    ELSE IF pc = "index"
         THEN TailFrom(TailOrder(pc), sl,
                       [ix EXCEPT ![userId] = Stored(FilterOut(getAllProjects(ix, userId), id))],
                       userId, id)
         ELSE TailFrom(TailOrder(pc), removeItem(sl, id, SliceOfPc(pc)), ix, userId, id)

\* the continuation of `await Promise.all(deletionPromises)`: synchronous to the return
DeleteProjectTail(i) ==
    /\ running = i
    /\ LET d == dels[i]
           w == TailFrom(d.pc, slices, index, d.uid, d.id)
       IN  slices' = w.slices /\ index' = w.index
    /\ dels' = [dels EXCEPT ![i] = IdleCall]
    /\ running' = 0
    /\ UNCHANGED <<idb, detached, crashed, budgetVars>>

\* a handler of the App runs between the statements of other handlers, never inside one
Quiet == running = 0 /\ UNCHANGED <<appHist, delSide, extSide>>

ILoad(id) == loadsMade < MaxIndexLoads /\ handleLoadProject(id) /\ Quiet

ILoadGet(k) == LoadGetSettle(k) /\ Quiet

ILaunch(id) == loadsMade < MaxIndexLoads /\ handleLaunchStudio(id) /\ Quiet

IGoHub == GoHub /\ Quiet

IHydrationTimer == HydrationTimerFire /\ Quiet

ITick == Tick /\ Quiet

ICastFire == CastDebounceFire /\ Quiet

IScenesFire == ScenesDebounceFire /\ Quiet

IBothFire == BothDebounceFire /\ Quiet

ISavePut(job, put) == SavePutSettle(job, put) /\ Quiet

ICastUpdate(id, image) == mutsMade < MaxIndexMuts /\ handleCastUpdate(id, image) /\ Quiet

delRest == <<callInfo, lastDone, interrupted, firstSnap, assetSnap, assetTwice>>

\* one delete at a time here: overlapping deleteProject calls are SpecDelete's subject
IDelete(id) ==
    /\ handleDeleteProject(1, id)
    /\ UNCHANGED <<appSide, delRest, extSide>>

IDeleteSettle(k) ==
    /\ DeleteAssetSettle(1, k)
    /\ UNCHANGED <<appSide, delRest, extSide>>

IDeleteTail ==
    /\ DeleteProjectTail(1)
    /\ deleted' = deleted \cup {<<dels[1].uid, dels[1].id>>}
    /\ UNCHANGED <<appVars, gate, saved, justLoaded, overlap, burst, delRest, extSide>>

IStaleSave(id, keySuffix) ==
    /\ <<CurrentUser, id>> \in deleted
    /\ StaleSaveProjectData(CurrentUser, id, keySuffix)
    /\ UNCHANGED <<appSide, delSide, extSide>>

IStaleMeta(id) ==
    /\ <<CurrentUser, id>> \in deleted
    /\ StaleUpdateProjectMeta(CurrentUser, id)
    /\ UNCHANGED <<appSide, delSide, extSide>>

NextIndex ==
    \/ \E id \in ProjectIds : ILoad(id)
    \/ \E k \in 1..MaxScenes : ILoadGet(k)
    \/ \E id \in ProjectIds : ILaunch(id)
    \/ IGoHub
    \/ IHydrationTimer
    \/ ITick
    \/ ICastFire
    \/ IScenesFire
    \/ IBothFire
    \/ \E job \in saves : \E put \in job.pending : ISavePut(job, put)
    \/ \E id \in CastIds, image \in CastUploads(currentProjectId) \cup {Null} :
            ICastUpdate(id, image)
    \/ \E id \in ProjectIds : IDelete(id)
    \/ \E k \in BlobKeys : IDeleteSettle(k)
    \/ IDeleteTail
    \/ \E id \in ProjectIds, keySuffix \in {"voice"} : IStaleSave(id, keySuffix)
    \/ \E id \in ProjectIds : IStaleMeta(id)

SpecIndex == InitApp /\ [][NextIndex]_vars

\* C9: once deleteProject(userId, id) has returned, the index of userId never holds id
\* again, whatever runs afterwards.
IndexAuthority ==
    \A d \in deleted : d[2] \notin IndexIds(index, d[1])

\* a deleted project whose scenes slice was written again by a saveProject call that
\* outlived the delete
IndexAuthorityWitness ==
    \E d \in deleted : slices[d[2]]["scenes"].has /\ d[2] \notin IndexIds(index, d[1])

(***************************************************************************)
(* Specification SpecPort: the hub's export and import buttons, between    *)
(* studio sessions whose App, VoiceLab and CinemaLab auto-saves write the  *)
(* stores                                                                  *)
(***************************************************************************)
\* what a project launched and auto-saved once has stored
LaunchedSlices ==
    [s \in SliceNames |->
        CASE s = "cast" -> Stored(CastAtRest)
          [] s = "scenes" -> Stored(<<>>)
          [] OTHER -> Absent]

\* one blob per entity of FullSlices, no two of the same length
SavedBlob(k) ==
    CASE k[1] = "cast" -> "A"
      [] k[1] = "scene" -> "S"
      [] k[1] = "voice" -> "TT"
      [] k[1] = "video" -> "EEE"

\* project p1 as an earlier session left it: launched and never saved, saved without
\* scenes, saved with cast and scenes, or saved by all three components; its blobs
\* written or not
InitPortStores ==
    /\ \E src \in {NoSlices, LaunchedSlices, CastScenesSlices("s1"), FullSlices("s1")} :
        /\ slices = [p \in ProjectIds |-> IF p = "p1" THEN src ELSE NoSlices]
        /\ index = [NoIndex EXCEPT !["u1"] = Stored(<<SavedMeta("p1", src)>>)]
        /\ \E full \in BOOLEAN :
            idb = [k \in BlobKeys |->
                    IF full /\ k \in DeletionKeys(slices, "p1")
                    THEN SavedBlob(k) ELSE Null]
    /\ InitAppMem({"p1", "s1"})

InitPort ==
    /\ InitPortStores
    /\ InitAppHist
    /\ InitCalls
    /\ callInfo = [i \in DelSlots |-> NoInfo]
    /\ lastDone = NoDone
    /\ interrupted = {}
    /\ firstSnap = NoSnap
    /\ assetSnap = NoAssetSnap
    /\ assetTwice = FALSE
    /\ InitExt

\* the file the user picks: the one exportProject returned, or a copy that lacks one
\* of its sections
Truncate(d, drop) == [s \in DOMAIN d |-> IF s = drop THEN Absent ELSE d[s]]

portRest == <<faultHist, quotaSide, auxSide, appHist, delSide>>

\* a step of the studio session: it ends what is known about the file and the import
\* when it writes a store
PQuiet ==
    /\ running = 0
    /\ untouched' = (untouched /\ <<index, slices, idb>>' = <<index, slices, idb>>)
    /\ before' = IF <<index, slices, idb>>' = <<index, slices, idb>> THEN before ELSE NoBefore
    /\ UNCHANGED <<doc, imp, labs, portRest>>

\* the studio sessions come first: no project is opened once a file was exported
PLoad(id) ==
    /\ loadsMade < MaxIndexLoads
    /\ ~doc.file
    /\ imp.phase = "idle"
    /\ handleLoadProject(id)
    /\ PQuiet

PLoadGet(k) == LoadGetSettle(k) /\ PQuiet

PGoHub == GoHub /\ PQuiet

PHydrationTimer == HydrationTimerFire /\ PQuiet

PTick == Tick /\ PQuiet

PCastFire == CastDebounceFire /\ PQuiet

PScenesFire == ScenesDebounceFire /\ PQuiet

PBothFire == BothDebounceFire /\ PQuiet

PSavePut(job, put) == SavePutSettle(job, put) /\ PQuiet

PCastUpdate(id, image) == mutsMade < MaxIndexMuts /\ handleCastUpdate(id, image) /\ PQuiet

\* the lines and the jobs the labs hold when their save timers fire
LabLines == {<<[id |-> "l1", audioUrl |-> "TT"]>>}

LabJobs == {<<[id |-> "v1", videoUrl |-> "EEE", status |-> "completed"]>>}

Touched ==
    /\ untouched' = FALSE
    /\ before' = NoBefore
    /\ UNCHANGED portRest

\* one lab save's requests at a time
PVoiceSave(scriptText, ls) == labs.puts = {} /\ VoiceLabSave(scriptText, ls) /\ Touched

PCinemaSave(js) == labs.puts = {} /\ CinemaLabSave(js) /\ Touched

PLabPut(p) == LabPutSettle(p) /\ Touched

\* the user exports from a hub at rest: every auto-save has finished, no timer is left
HubAtRest ==
    /\ saves = {}
    /\ labs.puts = {}
    /\ castTimer = NoTimer /\ scenesTimer = NoTimer /\ hydTimers = NoTimer

PExport(id) ==
    /\ HubAtRest
    /\ handleExport(id)
    /\ untouched' = TRUE
    /\ before' = NoBefore
    /\ UNCHANGED portRest

PImport(drop, newId) ==
    /\ handleFileChange(Truncate(doc, drop), newId)
    /\ untouched' = (untouched /\ drop = "none")
    /\ before' = [valid |-> TRUE, index |-> index, slices |-> slices, idb |-> idb]
    /\ UNCHANGED portRest

PImportPut(put) == ImportPutSettle(put) /\ UNCHANGED <<untouched, before, portRest>>

PImportReject(put) == ImportPutReject(put) /\ UNCHANGED <<untouched, before, portRest>>

NextPort ==
    \/ \E id \in ProjectIds : PLoad(id)
    \/ \E k \in 1..MaxScenes : PLoadGet(k)
    \/ PGoHub
    \/ PHydrationTimer
    \/ PTick
    \/ PCastFire
    \/ PScenesFire
    \/ PBothFire
    \/ \E job \in saves : \E put \in job.pending : PSavePut(job, put)
    \/ \E id \in CastIds, image \in CastUploads(currentProjectId) : PCastUpdate(id, image)
    \/ \E scriptText \in {"", "x"}, ls \in LabLines : PVoiceSave(scriptText, ls)
    \/ \E js \in LabJobs : PCinemaSave(js)
    \/ \E p \in labs.puts : PLabPut(p)
    \/ \E id \in ProjectIds : PExport(id)
    \/ \E drop \in Sections \cup {"none"}, newId \in ProjectIds : PImport(drop, newId)
    \/ \E put \in imp.pending : PImportPut(put)
    \/ \E put \in imp.pending : PImportReject(put)

SpecPort == InitPort /\ [][NextPort]_vars

LacksRequired(data) == \E s \in {"metadata", "cast", "scenes"} : ~data[s].has

\* C11: an importProject call on a file that lacks metadata, cast or scenes fails and
\* leaves the project index, the data slices and the Blob Store as they were when it
\* was called.
ImportRejectsInvalid ==
    (before.valid /\ imp.phase # "idle" /\ LacksRequired(imp.data)) =>
        /\ imp.phase = "failed"
        /\ index = before.index /\ slices = before.slices /\ idb = before.idb

\* a file that carries a cast image and lacks a required section was turned down
ImportRejectsInvalidWitness ==
    /\ before.valid
    /\ imp.phase = "failed"
    /\ LacksRequired(imp.data)
    /\ imp.data.cast.has
    /\ \E c \in SeqRange(imp.data.cast.val) : c.image # Null

\* C12: an importProject call on a file that has metadata, cast and scenes succeeds,
\* also when the file has no voice or no motion section: the call fails only on a file
\* that lacks a required section (or on a saveAsset that was turned down).
ImportAcceptsValid ==
    (imp.phase = "failed" /\ ~imp.quota) => LacksRequired(imp.data)

\* C13: the project that importProject makes of the file exportProject has just
\* returned has, once loaded and hydrated, the cast, scenes, voice and motion content
\* of the source project.
ExportImportIdentity ==
    (imp.phase = "ok" /\ imp.pending = {} /\ untouched) =>
        Content(slices, idb, imp.newId) = Content(slices, idb, imp.data.metadata.val.id)

NullAtRest ==
    \A p \in ProjectIds :
        /\ \A e \in SeqRange(loadProjectData(slices, p, "cast", <<>>)) : e.image = Null
        /\ \A e \in SeqRange(loadProjectData(slices, p, "scenes", <<>>)) : e.imageUrl = Null
        /\ \A e \in SeqRange(loadProjectData(slices, p, "voice",
                                               [scriptText |-> "", lines |-> <<>>]).lines) :
                e.audioUrl = Null
        /\ \A e \in SeqRange(loadProjectData(slices, p, "motion", <<>>)) : e.videoUrl = Null

\* the App's auto-save has written an uploaded cast image, both labs have written
\* theirs, and a file with an image, an audio and a video was imported
NullAtRestWitness ==
    /\ imp.phase = "ok"
    /\ \E e \in SeqRange(imp.data.cast.val) : e.image # Null
    /\ \E e \in SeqRange(imp.data.voice.val.lines) : e.audioUrl # Null
    /\ \E e \in SeqRange(imp.data.motion.val) : e.videoUrl # Null
    /\ \E sig \in lastSavedSignature : sig[1] = BlobKey("cast", "1") /\ sig[2] = Len("DD")
    /\ labs.audio # {}
    /\ labs.video # {}

(***************************************************************************)
(* Specification SpecFault: one studio session, from the hub to the open   *)
(* project, in which a getAsset of the load can fail and a saveAsset of    *)
(* the auto-save can be turned down                                        *)
(***************************************************************************)
\* edits made in one run of SpecFault
MaxFaultMuts == 2

faultRest == <<appHist, delSide, portSide, quotaSide, auxSide>>

SameFaults == UNCHANGED <<failedPut, failedGet, faultRest>>

FLoad(id) ==
    /\ handleLoadProject(id)
    /\ failedPut' = {}
    /\ failedGet' = IF loadJob'.active THEN NoFailedGet
                     ELSE [ended |-> TRUE, id |-> id, keys |-> {}]
    /\ UNCHANGED faultRest

FLoadGet(k) ==
    /\ LoadGetSettle(k)
    /\ failedPut' = {f \in failedPut :
                        ~(f[2] = LoadKey(loadJob, k) /\ f[3] = getAsset(idb, f[2]))}
    /\ failedGet' = IF loadJob'.active THEN NoFailedGet
                     ELSE [ended |-> TRUE, id |-> loadJob.id, keys |-> {}]
    /\ UNCHANGED faultRest

\* a read of the load fails
FLoadGetReject(k) ==
    /\ LoadGetReject(k)
    /\ failedPut' = {f \in failedPut :
                        ~(f[2] \in {LoadKey(loadJob, j) : j \in loadJob.pending \ {k}}
                          /\ f[3] = getAsset(idb, f[2]))}
    /\ failedGet' = [ended |-> TRUE, id |-> loadJob.id, keys |-> {LoadKey(loadJob, k)}]
    /\ UNCHANGED faultRest

FLaunch(id) ==
    /\ handleLaunchStudio(id)
    /\ failedPut' = {}
    /\ failedGet' = NoFailedGet
    /\ UNCHANGED faultRest

FHydrationTimer == HydrationTimerFire /\ SameFaults

FTick == Tick /\ SameFaults

FCastFire == CastDebounceFire /\ SameFaults

FScenesFire == ScenesDebounceFire /\ SameFaults

FBothFire == BothDebounceFire /\ SameFaults

\* a write that succeeds ends what is known about the last load, and the failure of
\* an earlier request for the same payload
FSavePut(job, put) ==
    /\ SavePutSettle(job, put)
    /\ failedPut' = {f \in failedPut : ~(f[2] = put[1] /\ f[3] = put[2])}
    /\ failedGet' = NoFailedGet
    /\ UNCHANGED faultRest

\* a request of the open project's auto-save is turned down, for a payload that no
\* other request has written
FSavePutReject(job, put) ==
    /\ SavePutReject(job, put)
    /\ failedPut' = IF /\ job.pid = currentProjectId
                        /\ Signature(put[1], put[2]) \notin lastSavedSignature
                     THEN failedPut \cup {<<job.pid, put[1], put[2]>>}
                     ELSE failedPut
    /\ UNCHANGED <<failedGet, faultRest>>

FaultEdit == mutsMade < MaxFaultMuts /\ failedGet' = NoFailedGet /\ UNCHANGED <<failedPut, faultRest>>

FCastUpdate(id, image) == handleCastUpdate(id, image) /\ FaultEdit

FGenerate(id) == handleGenerateScenes(id) /\ FaultEdit

FSceneResult(id, ok, img) ==
    /\ SceneResult(id, ok, img)
    /\ failedGet' = NoFailedGet
    /\ UNCHANGED <<failedPut, faultRest>>

NextFault ==
    \/ \E id \in ProjectIds : FLoad(id)
    \/ \E k \in 1..MaxScenes : FLoadGet(k)
    \/ \E k \in 1..MaxScenes : FLoadGetReject(k)
    \/ \E id \in ProjectIds : FLaunch(id)
    \/ FHydrationTimer
    \/ FTick
    \/ FCastFire
    \/ FScenesFire
    \/ FBothFire
    \/ \E job \in saves : \E put \in job.pending : FSavePut(job, put)
    \/ \E job \in saves : \E put \in job.pending : FSavePutReject(job, put)
    \/ \E id \in CastIds, image \in CastUploads(currentProjectId) : FCastUpdate(id, image)
    \/ \E id \in SceneIds : FGenerate(id)
    \/ \E id \in SceneIds, ok \in BOOLEAN, img \in {"TT"} : FSceneResult(id, ok, img)

SpecFault == InitApp /\ [][NextFault]_vars

(***************************************************************************)
(* Specification SpecQuota: saveAsset calls under the platform's estimates *)
(***************************************************************************)
\* the keys and payloads of the calls
QuotaKeys == {BlobKey("cast", "1"), BlobKey("scene", "s1")}

QuotaPayloads == {"A", "DD", "EEE"}

quotaRest == <<appSide, delSide, portSide, faultHist, auxSide>>

\* no deleteProject call was made
InitNoDelete ==
    /\ InitCalls
    /\ callInfo = [i \in DelSlots |-> NoInfo]
    /\ lastDone = NoDone
    /\ interrupted = {}
    /\ firstSnap = NoSnap
    /\ assetSnap = NoAssetSnap
    /\ assetTwice = FALSE

InitQuota ==
    /\ InitAppStores
    /\ InitAppHist
    /\ InitNoDelete
    /\ InitPortFault
    /\ estimate \in Estimates
    /\ assetCall = NoAssetCall
    /\ kept = idb
    /\ InitAux

QCall(key, data) == saveAssetCall(key, data) /\ kept' = idb /\ UNCHANGED quotaRest

QCheck == saveAssetCheck /\ UNCHANGED <<kept, quotaRest>>

QPut == saveAssetPut /\ UNCHANGED <<kept, quotaRest>>

QPutError == saveAssetPutError /\ UNCHANGED <<kept, quotaRest>>

QStorageChanges(e) == StorageChanges(e) /\ UNCHANGED <<kept, quotaRest>>

NextQuota ==
    \/ \E key \in QuotaKeys, data \in QuotaPayloads : QCall(key, data)
    \/ QCheck
    \/ QPut
    \/ QPutError
    \/ \E e \in Estimates : QStorageChanges(e)

SpecQuota == InitQuota /\ [][NextQuota]_vars

\* the estimate the call read shows less room than the payload needs
TooLittleRoom(call) ==
    call.est.kind = "ok" /\ call.est.quota - call.est.usage < Len(call.data)

\* the blob keys handleLoadProject reads for a project (App.tsx 126-144)
HydrationKeys(sl, id) ==
    {BlobKey("cast", c.id) : c \in SeqRange(loadProjectData(sl, id, "cast", INITIAL_CAST))}
        \cup {BlobKey("scene", x.id) : x \in SeqRange(loadProjectData(sl, id, "scenes", <<>>))}

IndexEntries(ix, userId, id) == SelectSeq(getAllProjects(ix, userId), LAMBDA p : p.id = id)

\* C15: a step of a saveProject call that was started for another project than the
\* open one changes neither the slices of the open project, nor its index entry, nor
\* a blob its entities hydrate from.
StaleWriteIsolation ==
    [][(/\ currentProjectId # Null
        /\ currentProjectId' = currentProjectId
        /\ \E j \in saves : j.pid # currentProjectId /\ j \notin saves'
        /\ \A j \in saves' \ saves : j.pid # currentProjectId) =>
            /\ slices'[currentProjectId] = slices[currentProjectId]
            /\ IndexEntries(index', CurrentUser, currentProjectId)
                    = IndexEntries(index, CurrentUser, currentProjectId)
            /\ \A k \in HydrationKeys(slices, currentProjectId) : idb'[k] = idb[k]]_vars

\* C16: when a read of a load has failed, every other cast member and scene of the
\* loaded project whose blob is stored is in memory with that blob.
SiblingHydration ==
    (/\ failedGet.ended
     /\ failedGet.keys # {}
     /\ currentProjectId = failedGet.id
     /\ ~isHydrating) =>
        /\ \A e \in SeqRange(loadProjectData(slices, failedGet.id, "cast", INITIAL_CAST)) :
                (/\ BlobKey("cast", e.id) \notin failedGet.keys
                 /\ idb[BlobKey("cast", e.id)] # Null) =>
                    \E m \in SeqRange(cast) :
                        m.id = e.id /\ m.image = idb[BlobKey("cast", e.id)]
        /\ \A e \in SeqRange(loadProjectData(slices, failedGet.id, "scenes", <<>>)) :
                (/\ BlobKey("scene", e.id) \notin failedGet.keys
                 /\ ~e.loading
                 /\ idb[BlobKey("scene", e.id)] # Null) =>
                    \E m \in SeqRange(scenes) :
                        m.id = e.id /\ m.imageUrl = idb[BlobKey("scene", e.id)]

\* C18: once no saveProject call is in flight, every project of the index whose
\* scenes slice is stored has sceneCount equal to the number of scenes in it.
SceneCountDerived ==
    saves = {} =>
        \A k \in 1..Len(getAllProjects(index, CurrentUser)) :
            LET p == getAllProjects(index, CurrentUser)[k]
            IN  slices[p.id]["scenes"].has => p.sceneCount = Len(slices[p.id]["scenes"].val)

\* the entity at a blob key holds this payload in memory
HeldInMemory(key, data) ==
    \/ \E m \in SeqRange(cast) : BlobKey("cast", m.id) = key /\ m.image = data
    \/ \E m \in SeqRange(scenes) : BlobKey("scene", m.id) = key /\ m.imageUrl = data

\* C19: the step in which a saveAsset of the open project's auto-save is turned down
\* leaves the cast and the scenes in memory as they were and records no signature; as
\* long as the payload was not written after all, its signature stays unrecorded and
\* an auto-save of a state that still holds it issues the write again.
RetryAfterQuota ==
    /\ [](\A f \in failedPut :
            f[1] = currentProjectId =>
                /\ Signature(f[2], f[3]) \notin lastSavedSignature
                /\ HeldInMemory(f[2], f[3]) =>
                        <<f[2], f[3]>> \in CastPuts(cast, lastSavedSignature)
                                           \cup ScenePuts(scenes, lastSavedSignature))
    /\ [][failedPut' \ failedPut # {} =>
            /\ cast' = cast
            /\ scenes' = scenes
            /\ lastSavedSignature' = lastSavedSignature]_vars

\* the cast image that was turned down is being written again by a later auto-save
RetryAfterQuotaWitness ==
    \E f \in failedPut :
        /\ f[1] = currentProjectId
        /\ HeldInMemory(f[2], f[3])
        /\ \E j \in saves : j.pid = f[1] /\ j.phase # "failed" /\ <<f[2], f[3]>> \in j.pending

\* C20: a saveAsset call that has ended and whose estimate showed less room left than
\* the length of its payload ended with the throw, and the Blob Store is what it was
\* when the call was made.
QuotaRefusal ==
    (assetCall.phase \in {"resolved", "rejected", "thrown"} /\ TooLittleRoom(assetCall)) =>
        /\ assetCall.phase = "thrown"
        /\ idb = kept

\* the same refusal on the estimates whose usage and quota are both positive
QuotaRefusalPositive ==
    (/\ assetCall.phase \in {"resolved", "rejected", "thrown"}
     /\ TooLittleRoom(assetCall)
     /\ assetCall.est.usage # 0
     /\ assetCall.est.quota # 0) =>
        /\ assetCall.phase = "thrown"
        /\ idb = kept

(***************************************************************************)
(* Specification SpecBlob: the Blob Store under completed saveAsset,       *)
(* deleteAsset and clearAssets calls                                       *)
(***************************************************************************)
\* the payloads of the calls: any string, the empty one included
BlobPayloads == {"", "A", "DD"}

blobRest == <<appSide, delHist, portSide, faultHist, kept, regSide, moreSide>>

BCall(key, data) == saveAssetCall(key, data) /\ UNCHANGED <<written, delSide, blobRest>>

BCheck == saveAssetCheck /\ UNCHANGED <<written, delSide, blobRest>>

BPut ==
    /\ saveAssetPut
    /\ written' = [written EXCEPT ![assetCall.key] = assetCall.data]
    /\ UNCHANGED <<delSide, blobRest>>

BDelete(key) ==
    /\ AssetCallEnded
    /\ DeleteAssetOp(key)
    /\ written' = [written EXCEPT ![key] = Null]
    /\ UNCHANGED <<estimate, assetCall, blobRest>>

BClear ==
    /\ AssetCallEnded
    /\ ClearAssetsOp
    /\ written' = [k \in BlobKeys |-> Null]
    /\ UNCHANGED <<estimate, assetCall, blobRest>>

NextBlob ==
    \/ \E key \in QuotaKeys, data \in BlobPayloads : BCall(key, data)
    \/ BCheck
    \/ BPut
    \/ \E key \in QuotaKeys : BDelete(key)
    \/ BClear

InitBlob ==
    /\ InitAppStores
    /\ InitAppHist
    /\ InitNoDelete
    /\ InitPortFault
    /\ estimate = NoEstimate
    /\ assetCall = NoAssetCall
    /\ kept = [k \in BlobKeys |-> Null]
    /\ written = idb
    /\ allUsers = Stored(<<UserRec("u1"), UserRec("u2")>>)
    /\ ret = NoRet
    /\ InitMore

SpecBlob == InitBlob /\ [][NextBlob]_vars

\* C21: with every saveAsset, deleteAsset and clearAssets call completed, getAsset
\* returns at each key the payload of the last saveAsset on it that no deleteAsset of
\* the key and no clearAssets followed, and null where there is none.
BlobMapSemantics ==
    AssetCallEnded => \A k \in BlobKeys : getAsset(idb, k) = written[k]

(***************************************************************************)
(* Specification SpecRegistry: one call of the Project Registry on the     *)
(* stores earlier sessions may have left                                   *)
(***************************************************************************)
\* registry calls made in one run
MaxRegCalls == 2

MetaAt(id, t) == [Meta(id) EXCEPT !.lastModified = t]

\* the indexes a user may have: of no, one or two projects, written before or during
\* this session
RegLists ==
    {<<>>}
        \cup {<<MetaAt(p, t)>> : p \in ProjectIds, t \in {0, SessionTime}}
        \cup {<<MetaAt(pq[1], t), MetaAt(pq[2], u)>> :
                    pq \in {x \in ProjectIds \X ProjectIds : x[1] # x[2]},
                    t \in {0, SessionTime}, u \in {0, SessionTime}}

ListIds(item) == IF item.has /\ JSONparse(item).ok THEN {m.id : m \in SeqRange(item.val)} ELSE {}

RegIndexes ==
    {ix \in [Users -> {Absent, Corrupt} \cup {Stored(l) : l \in RegLists}] :
        ListIds(ix["u1"]) \cap ListIds(ix["u2"]) = {}}

RegUsers ==
    {Absent, Corrupt, Stored(<<UserRec("u1"), UserRec("u2")>>),
     Stored(<<UserRec("u2"), UserRec("u1")>>)}

\* the slices of p1: a stored one, one that is not JSON, and missing ones
RegSlices ==
    [p \in ProjectIds |->
        IF p = "p1"
        THEN [s \in SliceNames |->
                CASE s = "cast" -> Stored(CastAtRest)
                  [] s = "scenes" -> Corrupt
                  [] OTHER -> Absent]
        ELSE NoSlices]

InitRegistry ==
    /\ index \in RegIndexes
    /\ slices = RegSlices
    /\ idb = [k \in BlobKeys |-> Null]
    /\ InitAppMem(ListIds(index["u1"]) \cup ListIds(index["u2"]) \cup {"s1"})
    /\ InitAppHist
    /\ InitNoDelete
    /\ InitPortFault
    /\ estimate = NoEstimate
    /\ assetCall = NoAssetCall
    /\ kept = [k \in BlobKeys |-> Null]
    /\ written = [k \in BlobKeys |-> Null]
    /\ allUsers \in RegUsers
    /\ ret = NoRet
    /\ InitMore

regRest == <<memVars, timerVars, jobVars, mutsMade, loadsMade, appHist, delSide, portSide,
             faultHist, quotaSide, written, moreSide>>

\* the user objects handed to getAllProjects
UserObjects == [id : Users, role : {"user", "admin"}]

RGetAllProjects(user, adminFetchAll) ==
    /\ ret.n < MaxRegCalls
    /\ ret' = [n |-> ret.n + 1, op |-> "getAllProjects", user |-> user,
               adminFetchAll |-> adminFetchAll,
               val |-> getAllProjectsOf(index, allUsers, user, adminFetchAll),
               pre |-> index]
    /\ UNCHANGED <<storeVars, allUsers, usedIds, regRest>>

RCreateProject(userId, manifest, id) ==
    /\ ret.n < MaxRegCalls
    /\ id \in FreshIds(ProjectIds)
    /\ usedIds' = usedIds \cup {id}
    /\ index' = createProject(index, userId, id, manifest)
    /\ ret' = [n |-> ret.n + 1, op |-> "createProject", uid |-> userId,
               manifest |-> manifest, val |-> NewProject(id, manifest), pre |-> index]
    /\ UNCHANGED <<slices, idb, allUsers, regRest>>

RegUpdates == {NoUpdates, [sceneCount |-> 2, previewImage |-> "S"], [title |-> "Film"]}

RUpdateProjectMeta(userId, id, updates) ==
    /\ ret.n < MaxRegCalls
    /\ index' = updateProjectMeta(index, userId, id, updates)
    /\ ret' = [n |-> ret.n + 1, op |-> "updateProjectMeta", uid |-> userId, id |-> id,
               updates |-> updates, pre |-> index]
    /\ UNCHANGED <<slices, idb, allUsers, usedIds, regRest>>

RLoadProjectData(userId, projectId, keySuffix, fallback) ==
    /\ ret.n < MaxRegCalls
    /\ ret' = [n |-> ret.n + 1, op |-> "loadProjectData", uid |-> userId, id |-> projectId,
               keySuffix |-> keySuffix, fallback |-> fallback,
               val |-> loadProjectData(slices, projectId, keySuffix, fallback),
               pre |-> index]
    /\ UNCHANGED <<storeVars, allUsers, usedIds, regRest>>

NextRegistry ==
    \/ \E user \in UserObjects, adminFetchAll \in BOOLEAN : RGetAllProjects(user, adminFetchAll)
    \/ \E userId \in Users, manifest \in {NoManifest, Manifest(""), Manifest("Film")},
          id \in ProjectIds : RCreateProject(userId, manifest, id)
    \/ \E userId \in Users, id \in ProjectIds, updates \in RegUpdates :
            RUpdateProjectMeta(userId, id, updates)
    \/ \E userId \in Users, projectId \in ProjectIds, keySuffix \in {"cast", "scenes", "voice"},
          fallback \in {<<>>, <<SceneAtRest("s1"), SceneAtRest("s2")>>} :
            RLoadProjectData(userId, projectId, keySuffix, fallback)

SpecRegistry == InitRegistry /\ [][NextRegistry]_vars

\* the place of an entry of the cross-user listing in the concatenation of the known
\* users' indexes: the place of its owner, then its place in the owner's index
Place(seq, x) == CHOOSE k \in 1..Len(seq) : seq[k] = x

OwnerPlace(e) == Place([k \in 1..Len(KnownUsers(allUsers)) |-> KnownUsers(allUsers)[k].id], e.ownerId)

EntryPlace(e) ==
    Place([k \in 1..Len(getAllProjects(index, e.ownerId)) |->
                getAllProjects(index, e.ownerId)[k].id], e.id)

ComesFirst(e, f) ==
    \/ OwnerPlace(e) < OwnerPlace(f)
    \/ OwnerPlace(e) = OwnerPlace(f) /\ EntryPlace(e) < EntryPlace(f)

\* C22: the cross-user listing holds every entry of every known user's index and no
\* other, each with its owner's id and email, in the order of lastModified
\* descending, entries with equal lastModified in the order of the concatenation.
AdminListing ==
    (ret.op = "getAllProjects" /\ ret.user.role = "admin" /\ ret.adminFetchAll) =>
        LET v == ret.val
            known == KnownUsers(allUsers)
        IN  /\ \A j \in 1..Len(known) :
                    \A p \in SeqRange(getAllProjects(index, known[j].id)) :
                        \E k \in 1..Len(v) :
                            /\ v[k].ownerId = known[j].id
                            /\ v[k].ownerEmail = known[j].email
                            /\ \A f \in DOMAIN p : v[k][f] = p[f]
            /\ Len(v) = Cardinality({<<j, k>> \in (1..Len(known)) \X (1..2) :
                                        k <= Len(getAllProjects(index, known[j].id))})
            /\ \A i \in 1..Len(v), j \in 1..Len(v) :
                    i < j =>
                        /\ v[i].lastModified >= v[j].lastModified
                        /\ v[i].lastModified = v[j].lastModified => ComesFirst(v[i], v[j])

\* a listing of two users' projects in which the later user's newer project comes first
AdminListingWitness ==
    /\ ret.op = "getAllProjects"
    /\ ret.user.role = "admin"
    /\ ret.adminFetchAll
    /\ Len(ret.val) = 2
    /\ ret.val[1].ownerId # ret.val[2].ownerId
    /\ ret.val[1].lastModified > ret.val[2].lastModified
    /\ ComesFirst(ret.val[2], ret.val[1])

\* C23: createProject returns an entry whose id no index held, with sceneCount 0,
\* previewImage null and the title of the manifest ("Untitled Project" when the
\* manifest is left out or has an empty title); the user's index is then that entry
\* followed by the entries it had, and the other users' indexes are as they were.
CreateProjectPost ==
    ret.op = "createProject" =>
        /\ \A u \in Users : ret.val.id \notin IndexIds(ret.pre, u)
        /\ ret.val.sceneCount = 0
        /\ ret.val.previewImage = Null
        /\ ret.val.lastModified = SessionTime
        /\ ret.val.title = (IF ret.manifest.has /\ ret.manifest.projectTitle # ""
                            THEN ret.manifest.projectTitle ELSE "Untitled Project")
        /\ index[ret.uid] = Stored(<<ret.val>> \o getAllProjects(ret.pre, ret.uid))
        /\ \A u \in Users \ {ret.uid} : index[u] = ret.pre[u]

\* a project with the manifest's title was put in front of the entry the index had
CreateProjectPostWitness ==
    /\ ret.op = "createProject"
    /\ ret.val.title = "Film"
    /\ Len(getAllProjects(ret.pre, ret.uid)) = 1
    /\ Len(getAllProjects(index, ret.uid)) = 2
    /\ getAllProjects(index, ret.uid)[1] = ret.val

\* C24: updateProjectMeta with an id the user's index lacks leaves every index as it
\* was; with an id it has, the entry of that id takes the given fields and
\* lastModified = now, and every other entry, the order and the other users' indexes
\* stay as they were.
UpdateProjectMetaFrame ==
    ret.op = "updateProjectMeta" =>
        LET old == getAllProjects(ret.pre, ret.uid)
            new == getAllProjects(index, ret.uid)
        IN  IF ret.id \notin IndexIds(ret.pre, ret.uid)
            THEN index = ret.pre
            ELSE /\ \A u \in Users \ {ret.uid} : index[u] = ret.pre[u]
                 /\ Len(new) = Len(old)
                 /\ \A k \in 1..Len(old) :
                        IF old[k].id # ret.id THEN new[k] = old[k]
                        ELSE /\ new[k].id = ret.id
                             /\ new[k].lastModified = SessionTime
                             /\ \A f \in DOMAIN old[k] \ {"lastModified"} :
                                    new[k][f] = (IF f \in DOMAIN ret.updates
                                                 THEN ret.updates[f] ELSE old[k][f])

\* the second of two entries, last modified in an earlier session, was updated
UpdateProjectMetaFrameWitness ==
    /\ ret.op = "updateProjectMeta"
    /\ Len(getAllProjects(ret.pre, ret.uid)) = 2
    /\ getAllProjects(ret.pre, ret.uid)[2].id = ret.id
    /\ getAllProjects(ret.pre, ret.uid)[2].lastModified = 0
    /\ getAllProjects(index, ret.uid)[2].sceneCount = 2
    /\ getAllProjects(index, ret.uid)[2].lastModified = SessionTime

\* the call with an id the index lacks
UpdateAbsentWitness ==
    /\ ret.op = "updateProjectMeta"
    /\ ret.pre[ret.uid].has
    /\ ret.id \notin IndexIds(ret.pre, ret.uid)

\* C27: loadProjectData returns the fallback, and getAllProjects the empty list, when
\* the key is missing or its text is not JSON; neither passes the error on.
FallbackOnBadData ==
    /\ (/\ ret.op = "loadProjectData"
        /\ \/ ~slices[ret.id][ret.keySuffix].has
           \/ slices[ret.id][ret.keySuffix] = Corrupt) => ret.val = ret.fallback
    /\ (/\ ret.op = "getAllProjects"
        /\ ~(ret.user.role = "admin" /\ ret.adminFetchAll)
        /\ \/ ~index[ret.user.id].has
           \/ index[ret.user.id] = Corrupt) => ret.val = <<>>
    /\ (/\ ret.op = "getAllProjects"
        /\ ret.user.role = "admin"
        /\ ret.adminFetchAll
        /\ \/ ~allUsers.has
           \/ allUsers = Corrupt) => ret.val = <<>>

\* a slice whose text is not JSON was loaded with a fallback of two scenes
FallbackOnBadDataWitness ==
    /\ ret.op = "loadProjectData"
    /\ slices[ret.id][ret.keySuffix] = Corrupt
    /\ Len(ret.fallback) = 2
    /\ ret.val = ret.fallback

(***************************************************************************)
(* The admin view: an admin opens another user's project (App.tsx 188-199, *)
(* AdminDashboard.tsx) and the studio and the labs save it                 *)
(***************************************************************************)
\* fetchProjects(currentUser, adminFetchAll), App.tsx 74-77
fetchProjects(adminFetchAll) ==
    getAllProjectsOf(index, allUsers, UserRec(CurrentUser), adminFetchAll)

\* the hub's "admin view" button
handleSwitchToAdminView ==
    /\ running = 0
    /\ currentProjectId = Null
    /\ ~isAdminView
    /\ Role(CurrentUser) = "admin"
    /\ isAdminView' = TRUE
    /\ projectList' = fetchProjects(TRUE)
    /\ UNCHANGED <<storeVars, appVars>>

\* the dashboard's onSwitchView button
handleSwitchToPersonalView ==
    /\ running = 0
    /\ currentProjectId = Null
    /\ isAdminView
    /\ isAdminView' = FALSE
    /\ projectList' = fetchProjects(FALSE)
    /\ UNCHANGED <<storeVars, appVars>>

\* u1, the admin, owns p1 and u2 owns p2, launched or saved by an earlier session
InitAdminStores ==
    /\ \E src \in {LaunchedSlices, CastScenesSlices("s1")} :
        /\ slices = [p \in ProjectIds |-> IF p = "p1" THEN LaunchedSlices ELSE src]
        /\ index = [NoIndex EXCEPT !["u1"] = Stored(<<Meta("p1")>>),
                                   !["u2"] = Stored(<<SavedMeta("p2", src)>>)]
        /\ \E full \in BOOLEAN :
            idb = [k \in BlobKeys |->
                    IF full /\ k \in DeletionKeys(slices, "p2")
                    THEN SavedBlob(k) ELSE Null]
    /\ InitAppMem({"p1", "p2", "s1"})

InitAdmin ==
    /\ InitAdminStores
    /\ InitAppHist
    /\ InitNoDelete
    /\ InitExt

adminRest == <<appHist, delSide, before, untouched, faultHist, quotaSide, written, regSide,
              delAll, delUser>>

MQuiet == UNCHANGED <<doc, imp, labs, viewSide, adminRest>>

MSwitchToAdminView == handleSwitchToAdminView /\ UNCHANGED <<doc, imp, labs, adminRest>>

MSwitchToPersonalView == handleSwitchToPersonalView /\ UNCHANGED <<doc, imp, labs, adminRest>>

MLoad(id) == loadsMade < MaxIndexLoads /\ handleLoadProject(id) /\ MQuiet

MLoadGet(k) == LoadGetSettle(k) /\ MQuiet

MGoHub == GoHub /\ MQuiet

MHydrationTimer == HydrationTimerFire /\ MQuiet

MTick == Tick /\ MQuiet

MCastFire == CastDebounceFire /\ MQuiet

MScenesFire == ScenesDebounceFire /\ MQuiet

MBothFire == BothDebounceFire /\ MQuiet

MSavePut(job, put) == SavePutSettle(job, put) /\ MQuiet

MCastUpdate(id, image) == mutsMade < MaxIndexMuts /\ handleCastUpdate(id, image) /\ MQuiet

MVoiceSave(scriptText, ls) ==
    labs.puts = {} /\ VoiceLabSave(scriptText, ls) /\ UNCHANGED <<viewSide, adminRest>>

MCinemaSave(js) == labs.puts = {} /\ CinemaLabSave(js) /\ UNCHANGED <<viewSide, adminRest>>

MLabPut(p) == LabPutSettle(p) /\ UNCHANGED <<viewSide, adminRest>>

NextAdmin ==
    \/ MSwitchToAdminView
    \/ MSwitchToPersonalView
    \/ \E id \in ProjectIds : MLoad(id)
    \/ \E k \in 1..MaxScenes : MLoadGet(k)
    \/ MGoHub
    \/ MHydrationTimer
    \/ MTick
    \/ MCastFire
    \/ MScenesFire
    \/ MBothFire
    \/ \E job \in saves : \E put \in job.pending : MSavePut(job, put)
    \/ \E id \in CastIds, image \in CastUploads(currentProjectId) : MCastUpdate(id, image)
    \/ \E scriptText \in {"", "x"}, ls \in LabLines : MVoiceSave(scriptText, ls)
    \/ \E js \in LabJobs : MCinemaSave(js)
    \/ \E p \in labs.puts : MLabPut(p)

SpecAdmin == InitAdmin /\ [][NextAdmin]_vars

\* the index entries of project id, whoever owns it
EntriesOf(ix, id) ==
    {e \in UNION {SeqRange(getAllProjects(ix, u)) : u \in Users} : e.id = id}

\* a step stores a slice of project id
SliceSaved(id) == \E s \in SliceNames : slices'[id][s] # slices[id][s] /\ slices'[id][s].has

\* C25: whenever a slice of a project is saved (by the cast and scenes, voice or
\* motion auto-save, also when the project was opened from the admin view), the
\* lastModified of the project's index entry is the time of the save, and no step
\* makes it smaller.
LastModifiedBump ==
    [][\A id \in ProjectIds :
        /\ SliceSaved(id) => \A e \in EntriesOf(index', id) : e.lastModified = SessionTime
        /\ \A e \in EntriesOf(index, id), f \in EntriesOf(index', id) :
                f.lastModified >= e.lastModified]_vars

(***************************************************************************)
(* deleteAllProjectsForUser (part_002 98-106) run on the stores of         *)
(* InitStores: the deleteProject calls it starts run side by side          *)
(***************************************************************************)
InitAll == InitDelete

allRest == <<lastDone, interrupted, firstSnap, assetSnap, assetTwice, appSide, portSide,
             faultHist, quotaSide, written, regSide, viewSide, delUser>>

\* a queued continuation runs before the next IndexedDB event is delivered
NothingQueued == Queued = {} /\ ~(delAll.pc = "await" /\ delAll.left = {})

LStart(u) ==
    /\ DeleteAllStart(u)
    /\ callInfo' = [i \in DelSlots |->
                        IF i > Len(getAllProjects(index, u)) THEN NoInfo
                        ELSE InfoAtStart(u, getAllProjects(index, u)[i].id)]
    /\ UNCHANGED allRest

LSettle(i, k) ==
    /\ NothingQueued
    /\ DeleteAssetSettle(i, k)
    /\ UNCHANGED <<callInfo, delAll, allRest>>

LReject(i, k) ==
    /\ NothingQueued
    /\ DeleteAssetReject(i, k)
    /\ delAll' = AfterDeleteProject(delAll, i, TRUE)
    /\ UNCHANGED <<callInfo, allRest>>

LDetached(k) ==
    /\ NothingQueued
    /\ DetachedSettle(k)
    /\ UNCHANGED <<callInfo, delAll, allRest>>

LResume(i) == DeleteProjectResume(i) /\ UNCHANGED <<callInfo, delAll, allRest>>

LStep(i) ==
    /\ DeleteProjectStep(i)
    /\ delAll' = IF Returns(i) THEN AfterDeleteProject(delAll, i, FALSE) ELSE delAll
    /\ UNCHANGED <<callInfo, allRest>>

LFinish == Queued = {} /\ DeleteAllFinish /\ UNCHANGED <<callInfo, allRest>>

NextAll ==
    \/ \E u \in Users : LStart(u)
    \/ \E i \in DelSlots, k \in BlobKeys : LSettle(i, k)
    \/ \E i \in DelSlots, k \in BlobKeys : LReject(i, k)
    \/ \E k \in BlobKeys : LDetached(k)
    \/ \E i \in DelSlots : LResume(i)
    \/ \E i \in DelSlots : LStep(i)
    \/ LFinish

SpecAll == InitAll /\ [][NextAll]_vars

\* C26: once deleteAllProjectsForUser(userId) has returned, the index key of userId is
\* absent, no slice key of a project the index listed is left, and getAsset gives null
\* for the derived key of every entity those slices held.
DeleteAllPost ==
    delAll.pc = "done" =>
        /\ ~index[delAll.uid].has
        /\ \A i \in 1..Len(delAll.projects) :
            /\ \A s \in SliceNames : ~slices[delAll.projects[i]][s].has
            /\ \A k \in EntityKeys(callInfo[i].read) : getAsset(idb, k) = Null

\* a call returned that found two projects with slices and with blobs to delete
DeleteAllPostWitness ==
    /\ delAll.pc = "done"
    /\ Len(delAll.projects) = 2
    /\ \A i \in 1..2 : callInfo[i].blobs /\ callInfo[i].read["cast"].has

(***************************************************************************)
(* Undo, redo (App.tsx 291-302), upload and removal of a cast image in a    *)
(* studio session on a project whose scene was generated, edited and saved *)
(* by an earlier session                                                   *)
(***************************************************************************)
\* scene s1 at rest: its history holds the image the edit replaced
EditedSceneAtRest ==
    [id |-> "s1", imageUrl |-> Null, loading |-> FALSE, approvalStatus |-> "draft",
     history |-> <<"S">>, redoStack |-> <<>>]

InitUndoStores ==
    /\ slices = [p \in ProjectIds |->
                    IF p = "p1"
                    THEN [s \in SliceNames |->
                            CASE s = "cast" -> Stored(CastAtRest)
                              [] s = "scenes" -> Stored(<<EditedSceneAtRest>>)
                              [] OTHER -> Absent]
                    ELSE NoSlices]
    /\ index = [NoIndex EXCEPT !["u1"] = Stored(<<SavedMeta("p1", slices["p1"])>>)]
    /\ idb = [k \in BlobKeys |->
                    IF k = BlobKey("cast", "1") THEN "A"
                    ELSE IF k = BlobKey("scene", "s1") THEN "TT"
                    ELSE Null]
    /\ InitAppMem({"p1", "s1"})

InitUndo ==
    /\ InitUndoStores
    /\ InitAppHist
    /\ InitNoDelete
    /\ InitExt

AAction(id, action) == handleAction(id, action) /\ AfterEdit /\ UNCHANGED burst

NextUndo ==
    \/ \E id \in ProjectIds : ALoad(id)
    \/ \E k \in 1..MaxScenes : ALoadGet(k)
    \/ AGoHub
    \/ AHydrationTimer
    \/ ATick
    \/ ACastFire
    \/ AScenesFire
    \/ ABothFire
    \/ \E job \in saves : \E put \in job.pending : ASavePut(job, put)
    \/ \E id \in CastIds, image \in CastUploads(currentProjectId) \cup {Null} :
            ACastUpdate(id, image)
    \/ \E id \in SceneIds, action \in {"undo", "redo"} : AAction(id, action)

SpecUndo == InitUndo /\ [][NextUndo]_vars

\* C28: when a saveProject call has completed and no blob was written since, the Blob
\* Store holds at the derived key the payload of every cast member and scene the call
\* saved with a binary field, also when a scene went from one image to another and
\* back (no two payloads agree in length).
BlobHoldsSaved ==
    saved.valid =>
        /\ \A e \in SeqRange(saved.cast) :
                e.image # Null => getAsset(idb, BlobKey("cast", e.id)) = e.image
        /\ \A e \in SeqRange(saved.scenes) :
                e.imageUrl # Null => getAsset(idb, BlobKey("scene", e.id)) = e.imageUrl

\* C29: a cast member or scene whose binary field was null when a saveProject call
\* completed comes back with a null binary field from a later load of the same
\* project, when no blob was written in between.
RemovalPersists ==
    (justLoaded # Null /\ saved.valid /\ saved.pid = justLoaded) =>
        /\ \A e \in SeqRange(saved.cast), m \in SeqRange(cast) :
                (e.image = Null /\ m.id = e.id) => m.image = Null
        /\ \A e \in SeqRange(saved.scenes), m \in SeqRange(scenes) :
                (e.imageUrl = Null /\ m.id = e.id) => m.imageUrl = Null

(***************************************************************************)
(* A session that leaves one project and opens another of the same user,   *)
(* with reads of the Blob Store that may fail                              *)
(***************************************************************************)
\* the scenes each project was saved with
HomeScenes(id) == IF id = "p1" THEN {"s1"} ELSE {"s2"}

\* u1 owns p1 (scene s1) and p2 (scene s2), both saved by earlier sessions
InitSwitchStores ==
    /\ slices = [p \in ProjectIds |->
                    IF p = "p1" THEN CastScenesSlices("s1") ELSE CastScenesSlices("s2")]
    /\ index = [NoIndex EXCEPT !["u1"] = Stored(<<SavedMeta("p2", slices["p2"]),
                                                  SavedMeta("p1", slices["p1"])>>)]
    /\ idb = [k \in BlobKeys |->
                    IF k = BlobKey("cast", "1") THEN "A"
                    ELSE IF k = BlobKey("scene", "s1") THEN "S"
                    ELSE IF k = BlobKey("scene", "s2") THEN "TT"
                    ELSE Null]
    /\ InitAppMem({"p1", "p2", "s1", "s2"})

InitSwitch ==
    /\ InitSwitchStores
    /\ InitAppHist
    /\ InitNoDelete
    /\ InitExt

FGoHub == GoHub /\ SameFaults

NextSwitch ==
    \/ \E id \in ProjectIds : FLoad(id)
    \/ \E k \in 1..MaxScenes : FLoadGet(k)
    \/ \E k \in 1..MaxScenes : FLoadGetReject(k)
    \/ FGoHub
    \/ FHydrationTimer
    \/ FTick
    \/ FCastFire
    \/ FScenesFire
    \/ FBothFire
    \/ \E job \in saves : \E put \in job.pending : FSavePut(job, put)
    \/ \E id \in CastIds, image \in CastUploads(currentProjectId) : FCastUpdate(id, image)

SpecSwitch == InitSwitch /\ [][NextSwitch]_vars

\* C30: the scenes slice of a project holds only scenes of that project: no auto-save
\* writes the scenes in memory of the project that was open before under the keys of
\* the project being opened, whether its hydration fails or is still running.
OwnEntitiesOnly ==
    \A p \in ProjectIds :
        slices[p]["scenes"].has =>
            \A e \in SeqRange(slices[p]["scenes"].val) : e.id \in HomeScenes(p)

(***************************************************************************)
(* deleteProject and the blobs of the projects it is not called for        *)
(***************************************************************************)
\* the projects some index lists
ListedProjects(ix) == UNION {IndexIds(ix, u) : u \in Users}

\* C31: a deleteAsset of a deleteProject call removes no blob that is at the derived
\* key of an entity of another project some index still lists.
DeleteSparesOthers ==
    [][\A i \in DelSlots, k \in BlobKeys :
        (/\ dels[i].pc = "await"
         /\ k \in dels[i].pending
         /\ k \notin dels'[i].pending
         /\ idb[k] # Null
         /\ idb'[k] = Null) =>
            \A q \in ListedProjects(index) \ {dels[i].id} : k \notin EntityKeys(slices[q])]_vars

(***************************************************************************)
(* A project is opened, and its voice and motion modules with it, and the  *)
(* user edits nothing                                                      *)
(***************************************************************************)
\* the voice slices an earlier session left: none, one with a script and its line, one
\* whose lines were kept while the script box was emptied
StoredVoices ==
    {Absent,
     Stored([scriptText |-> "x", lines |-> <<[id |-> "l1", audioUrl |-> Null]>>]),
     Stored([scriptText |-> "", lines |-> <<[id |-> "l1", audioUrl |-> Null]>>])}

InitOpenStores ==
    /\ \E v \in StoredVoices, full \in BOOLEAN, withMotion \in BOOLEAN :
        /\ slices = [p \in ProjectIds |->
                        IF p = "p1"
                        THEN [FullSlices("s1") EXCEPT
                                !["voice"] = v,
                                !["motion"] = IF withMotion THEN @ ELSE Absent,
                                !["prompt_draft"] = Absent]
                        ELSE NoSlices]
        /\ idb = [k \in BlobKeys |->
                    IF full /\ k \in DeletionKeys(slices, "p1") THEN SavedBlob(k) ELSE Null]
    /\ index = [NoIndex EXCEPT !["u1"] = Stored(<<SavedMeta("p1", slices["p1"])>>)]
    /\ InitAppMem({"p1", "s1"})

InitOpen ==
    /\ InitOpenStores
    /\ InitAppHist
    /\ InitNoDelete
    /\ InitExt

PVoiceOpen == labs.puts = {} /\ VoiceLabOpen /\ Touched

PCinemaOpen == labs.puts = {} /\ CinemaLabOpen /\ Touched

NextOpen ==
    \/ \E id \in ProjectIds : PLoad(id)
    \/ \E k \in 1..MaxScenes : PLoadGet(k)
    \/ PGoHub
    \/ PHydrationTimer
    \/ PTick
    \/ PBothFire
    \/ PVoiceOpen
    \/ PCinemaOpen

SpecOpen == InitOpen /\ [][NextOpen]_vars

\* C32: when a project and its voice and motion modules are opened and nothing is
\* edited, no step changes the content of a stored slice.
OpenKeepsSlices ==
    [][\A p \in ProjectIds, s \in SliceNames :
            slices[p][s].has => slices'[p][s] = slices[p][s]]_vars

(***************************************************************************)
(* importProject calls that fail                                           *)
(***************************************************************************)
\* C33: when an importProject call has failed on a file that has the required
\* sections (a later section is missing, or a saveAsset was refused), the index of the
\* user has no entry with the id the call drew; a file without the required sections
\* is the case of C11.
ImportFailureLeavesNoEntry ==
    (imp.phase = "failed" /\ ~LacksRequired(imp.data)) =>
        imp.newId \notin IndexIds(index, imp.uid)

(***************************************************************************)
(* deleteProject under the id of a user who does not own the project       *)
(***************************************************************************)
\* C34: a slice key of a project is removed, and a blob is deleted on behalf of a
\* deleteProject call, only by a call deleteProject(userId, id) whose userId had id in
\* its index when the call started: a call under another user's id changes nothing of
\* the project.
DeleteNeedsListing ==
    [][/\ \A p \in ProjectIds :
            (\E s \in SliceNames : slices[p][s].has /\ ~slices'[p][s].has)
                => (running # 0 /\ dels[running].id = p /\ callInfo[running].listed)
       /\ \A i \in DelSlots, k \in BlobKeys :
            (/\ dels[i].pc = "await" /\ k \in dels[i].pending /\ k \notin dels'[i].pending
             /\ idb[k] # Null /\ idb'[k] = Null) => callInfo[i].listed]_vars

(***************************************************************************)
(* Specification SpecLeak: a studio session with VoiceLab, then the hub's  *)
(* delete button                                                           *)
(***************************************************************************)
\* parseScript, part_006 67-95: the lines whose speaker and text the script still has
\* are kept, every other dialogue line of the script is a new line with a new id and
\* no audio
parseScript(ls, keptIds, newIds) ==
    SelectSeq(ls, LAMBDA l : l.id \in keptIds)
        \o [k \in 1..Len(newIds) |-> [id |-> newIds[k], audioUrl |-> Null]]

\* the lines VoiceLab holds when its save timer fires: the line with its generated
\* audio, or what a re-parse of a rewritten script has left of it
LeakLines == LabLines \cup {parseScript(ls, {}, <<>>) : ls \in LabLines}

leakRest == <<appHist, delSide, before, untouched, doc, imp, faultHist, quotaSide, auxSide>>

KVoiceSave(scriptText, ls) ==
    /\ labs.puts = {}
    /\ ~isHydrating
    /\ VoiceLabSave(scriptText, ls)
    /\ UNCHANGED leakRest

KLabPut(p) == LabPutSettle(p) /\ UNCHANGED leakRest

\* the delete button of a hub at rest
KDelete(id) == HubAtRest /\ IDelete(id)

NextLeak ==
    \/ \E id \in ProjectIds : ILoad(id)
    \/ \E k \in 1..MaxScenes : ILoadGet(k)
    \/ IGoHub
    \/ IHydrationTimer
    \/ ITick
    \/ ICastFire
    \/ IScenesFire
    \/ IBothFire
    \/ \E job \in saves : \E put \in job.pending : ISavePut(job, put)
    \/ \E id \in CastIds, image \in CastUploads(currentProjectId) \cup {Null} :
            ICastUpdate(id, image)
    \/ \E scriptText \in {"", "x"}, ls \in LeakLines : KVoiceSave(scriptText, ls)
    \/ \E p \in labs.puts : KLabPut(p)
    \/ \E id \in ProjectIds : KDelete(id)
    \/ \E k \in BlobKeys : IDeleteSettle(k)
    \/ IDeleteTail

SpecLeak == InitApp /\ [][NextLeak]_vars

\* C35: once the one project of the stores has been deleted from a hub at rest, the
\* Blob Store holds no payload at all: every blob was written for an entity of that
\* project.
NoBlobOutlivesProject ==
    (deleted # {} /\ HubAtRest /\ currentProjectId = Null) =>
        \A k \in BlobKeys : idb[k] = Null

(***************************************************************************)
(* the signatures and the auto-save after a load                           *)
(***************************************************************************)
\* C36: as long as the user has edited nothing, no saveProject call has a saveAsset
\* to wait for: every image in memory was fetched by a hydration, which recorded its
\* signature, so the auto-saves that follow the loads issue no blob write.
UnmodifiedLoadWritesNoBlob == mutsMade = 0 => saves = {}

(***************************************************************************)
(* the deleteProject calls of one deleteAllProjectsForUser, side by side   *)
(***************************************************************************)
\* C37: while deleteAllProjectsForUser waits for its deleteProject calls, the project
\* of every call that has returned is out of the user's index, and stays out whatever
\* the other calls write: no index write of one call brings back the entry another
\* call removed.
ConcurrentDeletesKeepRemoved ==
    delAll.pc = "await" =>
        \A i \in 1..Len(delAll.projects) :
            i \notin delAll.left => delAll.projects[i] \notin IndexIds(index, delAll.uid)

\* both calls have returned, for two different projects, each after blob deletions it
\* had to wait for, and deleteAllProjectsForUser has not removed the index key yet
ConcurrentDeletesWitness ==
    /\ delAll.pc = "await"
    /\ Len(delAll.projects) = 2
    /\ delAll.projects[1] # delAll.projects[2]
    /\ delAll.left = {}
    /\ \A i \in 1..2 : callInfo[i].blobs /\ callInfo[i].listed
    /\ index[delAll.uid].has

(***************************************************************************)
(* Specification SpecUser: the admin deletes users (AdminDashboard.tsx 41) *)
(* on the stores of InitStores                                             *)
(***************************************************************************)
userRest == <<lastDone, interrupted, firstSnap, assetSnap, assetTwice, appSide, portSide,
              faultHist, quotaSide, written, ret, viewSide>>

UStart(id) ==
    /\ \A i \in DelSlots : dels[i].pc = "idle"
    /\ delAll.pc # "await"
    /\ DeleteUserStart(id)
    /\ callInfo' = IF delUser'.pc # "await" THEN callInfo
                   ELSE [i \in DelSlots |->
                            IF i > Len(getAllProjects(index, id)) THEN NoInfo
                            ELSE InfoAtStart(id, getAllProjects(index, id)[i].id)]
    /\ UNCHANGED userRest

UFinish == DeleteUserFinish /\ UNCHANGED <<callInfo, userRest>>

UThrow == DeleteUserThrow /\ UNCHANGED <<callInfo, userRest>>

NextUser ==
    \/ \E id \in Users : UStart(id)
    \/ \E i \in DelSlots, k \in BlobKeys : LSettle(i, k)
    \/ \E i \in DelSlots, k \in BlobKeys : LReject(i, k)
    \/ \E k \in BlobKeys : LDetached(k)
    \/ \E i \in DelSlots : LResume(i)
    \/ \E i \in DelSlots : LStep(i)
    \/ LFinish
    \/ UFinish
    \/ UThrow

SpecUser == InitAll /\ [][NextUser]_vars

UserIds(au) == {KnownUsers(au)[k].id : k \in 1..Len(KnownUsers(au))}

MaxHist == 2

MaxRedo == 1

HistImages == {"S", "EEE"}

SeqsUpTo(S, n) == UNION {[1..m -> S] : m \in 0..n}

InitHistoryStores ==
    /\ \E h \in SeqsUpTo(HistImages, MaxHist), r \in SeqsUpTo(HistImages, MaxRedo) :
        slices = [p \in ProjectIds |->
                    IF p = "p1"
                    THEN [s \in SliceNames |->
                            CASE s = "cast" -> Stored(CastAtRest)
                              [] s = "scenes" ->
                                    Stored(<<[EditedSceneAtRest EXCEPT !.history = h,
                                                                       !.redoStack = r]>>)
                              [] OTHER -> Absent]
                    ELSE NoSlices]
    /\ index = [NoIndex EXCEPT !["u1"] = Stored(<<SavedMeta("p1", slices["p1"])>>)]
    /\ idb = [k \in BlobKeys |->
                    IF k = BlobKey("cast", "1") THEN "A"
                    ELSE IF k = BlobKey("scene", "s1") THEN "TT"
                    ELSE Null]
    /\ InitAppMem({"p1", "s1"})

InitHistory ==
    /\ InitHistoryStores
    /\ InitAppHist
    /\ InitNoDelete
    /\ InitExt

\* one load in one run
HLoad(id) == loadsMade < MaxIndexLoads /\ ALoad(id)

NextHistory ==
    \/ \E id \in ProjectIds : HLoad(id)
    \/ \E k \in 1..MaxScenes : ALoadGet(k)
    \/ AHydrationTimer
    \/ ATick
    \/ AScenesFire
    \/ ABothFire
    \/ \E job \in saves : \E put \in job.pending : ASavePut(job, put)
    \/ \E id \in SceneIds, action \in {"undo", "redo"} : AAction(id, action)
    \/ \E id \in SceneIds : AEditScene(id)
    \/ \E id \in SceneIds, ok \in BOOLEAN, img \in {"DD"} : ASceneResult(id, ok, img)

SpecHistory == InitHistory /\ [][NextHistory]_vars

\* the scenes in memory that keep a history
Kept == {scenes[k] : k \in {j \in 1..Len(scenes) : "history" \in DOMAIN scenes[j]}}

\* C39: on every scene the session reaches, undo followed by redo gives the scene back
\* when its history is not empty, redo followed by undo gives it back when its redo
\* stack is not empty, and undo on an empty history and redo on an empty redo stack
\* leave the scene as it is.
UndoRedoRoundTrip ==
    \A s \in Kept :
        /\ Len(s.history) > 0 => Redo(Undo(s)) = s
        /\ Len(s.redoStack) > 0 => Undo(Redo(s)) = s
        /\ Len(s.history) = 0 => Undo(s) = s
        /\ Len(s.redoStack) = 0 => Redo(s) = s

\* undo and redo have acted on a scene that now has both a history and a redo stack
UndoRedoRoundTripWitness ==
    /\ mutsMade >= 2
    /\ \E s \in Kept : /\ Len(s.history) > 0 /\ Len(s.redoStack) > 1
                       /\ s.imageUrl # Null

\* C40: the step in which an edit of a scene completes (its request ends and the image
\* it replaced goes on the history) leaves the scene with an empty redo stack, so that
\* a redo after the edit has no image undone before the edit to bring back.
EditClearsRedo ==
    [][\A k \in 1..Len(scenes) :
        (/\ Len(scenes') = Len(scenes)
         /\ "history" \in DOMAIN scenes[k]
         /\ scenes[k].id \in requests
         /\ scenes[k].id \notin requests'
         /\ Len(scenes'[k].history) = Len(scenes[k].history) + 1)
            => scenes'[k].redoStack = <<>>]_vars

====
